---- MODULE Spec2Model ----
(***************************************************************************)
(* The recommendation-to-spreadsheet-write pipeline of the dashboard:      *)
(* the renderer's recommendation cards (handleModify, handleApply,         *)
(* runAnalysis), the gateway functions of google-sheets.ts they reach      *)
(* through window.electronAPI, and the spreadsheet behind them.            *)
(*                                                                         *)
(* Text that the code parses or formats (cell references, receipt ids,     *)
(* tab names, modification notes) is a sequence of one-character strings.  *)
(* Every await of the renderer is two steps: the main process serves the   *)
(* request (Serve...), and later the renderer's continuation runs.         *)
(***************************************************************************)
EXTENDS Integers, Sequences, FiniteSets, TLC

\* How many times Apply is clicked in one run.
MaxApplies == 2
\* How many times Analyze is clicked in one run.
MaxAnalyses == 2
\* How many times Modify is clicked in one run.
MaxRefines == 1
\* How many times a notes field is edited in one run.
MaxEdits == 1
\* How many times a tab or Refresh is clicked in one run.
MaxFetches == 1
\* The longest ledger column the receipt-id specification starts from.
MaxLedger == 3
\* The longest range text parseCellRef and the highlight test are given.
MaxRefLen == 3
\* The most elements the body of the document holds.
MaxElements == 3
\* The most rows a tab holds when getSheetData is called on its own.
MaxSheetRows == 3
\* The data rows and the columns of the table on display.
MaxTableRows == 10
MaxTableCols == 27

\* JavaScript's undefined / null, where the defined values are plain strings,
\* texts (sequences of characters) and objects.
None == "none"
NoText == <<"undefined">>
NoObject == [undefined |-> TRUE]

----------------------------------------------------------------------------
(* Text *)

Digits == <<"0", "1", "2", "3", "4", "5", "6", "7", "8", "9">>

DigitSet == {Digits[d] : d \in 1..10}

DigitValues == [c \in DigitSet |-> (CHOOSE d \in 1..10 : Digits[d] = c) - 1]

IsDigit(c) == c \in DigitSet

DigitVal(c) == DigitValues[c]

IsSpace(c) == c \in {" ", "\n"}

UpperLetters ==
    <<"A", "B", "C", "D", "E", "F", "G", "H", "I", "J", "K", "L", "M",
      "N", "O", "P", "Q", "R", "S", "T", "U", "V", "W", "X", "Y", "Z">>

LowerLetters ==
    <<"a", "b", "c", "d", "e", "f", "g", "h", "i", "j", "k", "l", "m",
      "n", "o", "p", "q", "r", "s", "t", "u", "v", "w", "x", "y", "z">>

UpperSet == {UpperLetters[k] : k \in 1..26}

LowerSet == {LowerLetters[k] : k \in 1..26}

\* The place of a letter in the alphabet: A = a = 1 .. Z = z = 26.
LetterPlace ==
    [c \in UpperSet \cup LowerSet |->
        CHOOSE k \in 1..26 : UpperLetters[k] = c \/ LowerLetters[k] = c]

IsUpper(c) == c \in UpperSet

IsLower(c) == c \in LowerSet

IsLetter(c) == IsUpper(c) \/ IsLower(c)

\* c.toLowerCase() and c.toUpperCase() of one character.
ToLower(c) == IF IsUpper(c) THEN LowerLetters[LetterPlace[c]] ELSE c

ToUpper(c) == IF IsLower(c) THEN UpperLetters[LetterPlace[c]] ELSE c

\* c.charCodeAt(0) - 64 of an upper-case letter: A = 1 .. Z = 26.
LetterOrdinal(c) == LetterPlace[c]

\* parseInt(digits, 10) of a string of decimal digits.
RECURSIVE ParseInt(_)
ParseInt(s) ==
    IF s = <<>> THEN 0
    ELSE 10 * ParseInt(SubSeq(s, 1, Len(s) - 1)) + DigitVal(s[Len(s)])

\* String(n) of a non-negative integer.
RECURSIVE NumToString(_)
NumToString(n) ==
    IF n < 10 THEN <<Digits[n + 1]>>
    ELSE NumToString(n \div 10) \o <<Digits[(n % 10) + 1]>>

\* s.padStart(width, '0')
RECURSIVE PadStart(_, _)
PadStart(s, width) == IF Len(s) >= width THEN s ELSE PadStart(<<"0">> \o s, width)

\* s.trim()
RECURSIVE TrimStart(_)
TrimStart(s) == IF s # <<>> /\ IsSpace(s[1]) THEN TrimStart(Tail(s)) ELSE s

RECURSIVE TrimEnd(_)
TrimEnd(s) ==
    IF s # <<>> /\ IsSpace(s[Len(s)]) THEN TrimEnd(SubSeq(s, 1, Len(s) - 1)) ELSE s

\* Faulty variant of trim: the text is left as it is.
NoTrim(s) == s

Trim(s) == TrimEnd(TrimStart(s))

\* t.toLowerCase().replace(/\s/g, '')
RECURSIVE Normalize(_)
Normalize(s) ==
    IF s = <<>> THEN <<>>
    ELSE IF IsSpace(s[1]) THEN Normalize(Tail(s))
    ELSE <<ToLower(s[1])>> \o Normalize(Tail(s))

RecPrefix == <<"R", "E", "C", "-">>

\* typeof cell === 'string' && cell.match(/^REC-(\d+)$/): the digits of the
\* match, or NoText.
MatchReceiptId(cell) ==
    IF /\ cell # NoText
       /\ Len(cell) > Len(RecPrefix)
       /\ SubSeq(cell, 1, Len(RecPrefix)) = RecPrefix
       /\ \A k \in (Len(RecPrefix) + 1)..Len(cell) : IsDigit(cell[k])
    THEN SubSeq(cell, Len(RecPrefix) + 1, Len(cell))
    ELSE NoText

----------------------------------------------------------------------------
(* The gateway: src/main/google-sheets.ts.  Each function is given the       *)
(* configuration, the outcome of its backend calls (apiOk: the googleapis    *)
(* call resolved rather than threw) and the part of the spreadsheet it reads. *)

Tickets == <<"T", "i", "c", "k", "e", "t", "s">>
Reciepts == <<"R", "e", "c", "i", "e", "p", "t", "s">>
Pipeline == <<"P", "i", "p", "e", "l", "i", "n", "e">>
Approved == <<"A", "p", "p", "r", "o", "v", "e", "d">>
Rejected == <<"R", "e", "j", "e", "c", "t", "e", "d">>

B2 == <<"B", "2">>
B3 == <<"B", "3">>

\* getSheetTabs: the tab titles, or {error}.
getSheetTabs(hasId, apiOk, titles) ==
    IF ~hasId THEN [isArray |-> TRUE, tabs |-> <<Pipeline, Approved, Rejected>>]
    ELSE IF apiOk THEN [isArray |-> TRUE, tabs |-> titles]
    ELSE [isArray |-> FALSE, error |-> "Failed to fetch tabs"]

IsReceiptsName(t) ==
    Normalize(t) \in { <<"r", "e", "c", "e", "i", "p", "t", "s">>,
                       <<"r", "e", "c", "i", "e", "p", "t", "s">> }

\* tabs.find(pred) || null
RECURSIVE FindReceiptsName(_)
FindReceiptsName(names) ==
    IF names = <<>> THEN NoText
    ELSE IF IsReceiptsName(Head(names)) THEN Head(names)
    ELSE FindReceiptsName(Tail(names))

\* findReceiptsTab: the first tab whose normalised name is receipts or
\* reciepts, or null.
findReceiptsTab(tabsResult) ==
    IF ~tabsResult.isArray THEN NoText ELSE FindReceiptsName(tabsResult.tabs)

\* Faulty variant of the loop: the last matching row wins, not the largest.
RECURSIVE LastNum(_, _)
LastNum(values, maxNum) ==
    IF values = <<>> THEN maxNum
    ELSE LET match == MatchReceiptId(Head(values))
         IN  LastNum(Tail(values), IF match # NoText THEN ParseInt(match) ELSE maxNum)

\* The loop of getNextReceiptId over the rows of column A.
RECURSIVE MaxNum(_, _)
MaxNum(values, maxNum) ==
    IF values = <<>> THEN maxNum
    ELSE LET match == MatchReceiptId(Head(values))
             num == IF match = NoText THEN 0 ELSE ParseInt(match)
         IN  MaxNum(Tail(values), IF match # NoText /\ num > maxNum THEN num ELSE maxNum)

FirstReceiptId == <<"R", "E", "C", "-", "0", "0", "1">>

\* getNextReceiptId, given the result of its getSheetTabs call and of its read
\* of column A (columnOk: the read resolved).
getNextReceiptId(hasId, tabsResult, columnOk, columnA) ==
    IF ~hasId THEN [receiptId |-> FirstReceiptId, error |-> "SPREADSHEET_ID not set in .env"]
    ELSE IF findReceiptsTab(tabsResult) = NoText
    THEN [receiptId |-> FirstReceiptId, error |-> "Receipts tab not found in spreadsheet"]
    ELSE IF ~columnOk
    THEN [receiptId |-> FirstReceiptId, error |-> "Failed to get receipt ID"]
    ELSE [receiptId |-> RecPrefix \o PadStart(NumToString(MaxNum(columnA, 0) + 1), 3),
          error |-> None]

\* Faulty variant of getCellValue: a failed read still answers with a value.
getCellValueWithStaleValue(hasId, apiOk, content) ==
    IF ~hasId THEN [value |-> "?", error |-> "SPREADSHEET_ID not set in .env"]
    ELSE IF ~apiOk THEN [value |-> "?", error |-> "Failed to read cell"]
    ELSE [value |-> content, error |-> None]

\* getCellValue: response.data.values?.[0]?.[0] ?? '' of the cell, as a string.
getCellValue(hasId, apiOk, content) ==
    IF ~hasId THEN [value |-> "", error |-> "SPREADSHEET_ID not set in .env"]
    ELSE IF ~apiOk THEN [value |-> "", error |-> "Failed to read cell"]
    ELSE [value |-> content, error |-> None]

\* appendRow's result; the row is appended exactly when it is a success.
appendRow(hasId, apiOk) ==
    IF ~hasId THEN [success |-> FALSE, error |-> "SPREADSHEET_ID not set in .env"]
    ELSE IF ~apiOk THEN [success |-> FALSE, error |-> "Failed to append row"]
    ELSE [success |-> TRUE, error |-> None]

\* parseCellRef: /^([A-Z]+)(\d+)$/i, 0-indexed row and column, or null.
RECURSIVE LettersPrefix(_)
LettersPrefix(s) ==
    IF s # <<>> /\ IsLetter(s[1]) THEN <<s[1]>> \o LettersPrefix(Tail(s)) ELSE <<>>

\* Faulty variant of the column loop: positional base 26 with A = 0.
RECURSIVE ColumnNumberPositional(_, _)
ColumnNumberPositional(colStr, col) ==
    IF colStr = <<>> THEN col + 1
    ELSE ColumnNumberPositional(Tail(colStr),
                                col * 26 + LetterOrdinal(ToUpper(Head(colStr))) - 1)

RECURSIVE ColumnNumber(_, _)
ColumnNumber(colStr, col) ==
    IF colStr = <<>> THEN col
    ELSE ColumnNumber(Tail(colStr), col * 26 + LetterOrdinal(ToUpper(Head(colStr))))

parseCellRef(range) ==
    LET colStr == LettersPrefix(range)
        rowStr == SubSeq(range, Len(colStr) + 1, Len(range))
    IN  IF /\ colStr # <<>>
           /\ rowStr # <<>>
           /\ \A k \in 1..Len(rowStr) : IsDigit(rowStr[k])
        THEN [row |-> ParseInt(rowStr) - 1, col |-> ColumnNumber(colStr, 0) - 1]
        ELSE NoObject

\* What one call of setCellBackgroundGreen did: the backend calls it made
\* (the sheet lookup, the batch update), the grid cells it coloured and whether
\* it threw to its caller.
NotCalled == [called |-> FALSE, threw |-> FALSE, lookups |-> 0, batches |-> 0, cells |-> {}]

Background(lookups, batches, cells) ==
    [called |-> TRUE, threw |-> FALSE, lookups |-> lookups, batches |-> batches,
     cells |-> cells]

\* Faulty variant of setCellBackgroundGreen: a failed backend call is not caught.
setCellBackgroundGreenUncaught(hasId, metaOk, batchOk, titles, tab, range) ==
    LET cell == parseCellRef(range)
    IN  IF ~hasId \/ cell = NoObject THEN Background(0, 0, {})
        ELSE IF ~metaOk THEN [Background(1, 0, {}) EXCEPT !.threw = TRUE]
        ELSE IF ~\E k \in 1..Len(titles) : titles[k] = tab THEN Background(1, 0, {})
        ELSE IF ~batchOk \/ cell.row < 0
             THEN [Background(1, 1, {}) EXCEPT !.threw = TRUE]
        ELSE Background(1, 1, {[tab |-> tab, row |-> cell.row, col |-> cell.col]})

\* setCellBackgroundGreen: returns early without a spreadsheet id or a parsable
\* range; looks the tab's sheet id up (metaOk), returns when the tab is unknown,
\* and sends one batch update (batchOk; the backend refuses a negative row
\* index).  Every failure is caught and logged.
setCellBackgroundGreen(hasId, metaOk, batchOk, titles, tab, range) ==
    LET cell == parseCellRef(range)
    IN  IF ~hasId \/ cell = NoObject THEN Background(0, 0, {})
        ELSE IF ~metaOk THEN Background(1, 0, {})
        ELSE IF ~\E k \in 1..Len(titles) : titles[k] = tab THEN Background(1, 0, {})
        ELSE IF ~batchOk \/ cell.row < 0 THEN Background(1, 1, {})
        ELSE Background(1, 1, {[tab |-> tab, row |-> cell.row, col |-> cell.col]})

\* updateCell: the value write (apiOk), then the background call inside the same
\* try; writes counts the value writes sent, background is what the background
\* call did.
updateCell(hasId, apiOk, metaOk, batchOk, titles, tab, range) ==
    IF ~hasId
    THEN [success |-> FALSE, error |-> "SPREADSHEET_ID not set in .env",
          writes |-> 0, background |-> NotCalled]
    ELSE IF ~apiOk
    THEN [success |-> FALSE, error |-> "Failed to update cell",
          writes |-> 1, background |-> NotCalled]
    ELSE LET background == setCellBackgroundGreen(hasId, metaOk, batchOk, titles, tab, range)
         IN  IF background.threw
             THEN [success |-> FALSE, error |-> "Failed to update cell",
                   writes |-> 1, background |-> background]
             ELSE [success |-> TRUE, error |-> None,
                   writes |-> 1, background |-> background]

----------------------------------------------------------------------------
(* The analysis results the model backend answers with. *)

Recs == {"r1", "r2"}

\* Both recommendations target the same cell; r2 carries no category.
Recommendation(r) ==
    [id |-> r,
     title |-> IF r = "r1" THEN "Fix assignee" ELSE "Fix status",
     category |-> IF r = "r1" THEN "Assignment Mismatch" ELSE "",
     sourceReferences |-> IF r = "r1" THEN <<<<"J">>, <<"S">>>> ELSE NoObject,
     action |-> [tab |-> Tickets, range |-> B2,
                 newValue |-> IF r = "r1" THEN "a" ELSE "b"]]

AnalysisResults ==
    { [summary |-> "", recommendations |-> <<>>, error |-> "Analysis failed"],
      [summary |-> "s", recommendations |-> <<Recommendation("r1"), Recommendation("r2")>>,
       error |-> None] }

\* What modifyRecommendation answers with: an error, or any action.
ModifiedActions ==
    { [tab |-> Tickets, range |-> B2, newValue |-> "c"],
      [tab |-> Tickets, range |-> B3, newValue |-> "a"] }

ModifyResults == {[error |-> "Modification failed"]} \cup ModifiedActions

\* What the user types into a card's notes field.
NotesInputs == { <<>>, <<" ">>, <<"n">> }

----------------------------------------------------------------------------
(* State *)

VARIABLES
    \* the configuration and the spreadsheet
    spreadsheetId,      \* whether SPREADSHEET_ID is set
    sheetTabs,          \* the tab titles, in order
    cells,              \* the content of the cells of the Tickets tab
    ledger,             \* the rows of the receipts tab, each a row of values
    greenCells,         \* the grid cells whose background was set
    \* the renderer's state (App's useState hooks)
    tabs, activeTab, sheetData, error, loading,
    shownFor,           \* the tab whose fetch filled sheetData
    analysis, showAnalysis, analyzing,
    recStates, highlightedCells,
    \* requests in flight
    initialLoad,        \* loadInitialData is waiting for its two results
    fetches,            \* loadSheetData calls waiting for getSheetData, per tab
    refines,            \* handleModify calls waiting for modifyRecommendation, per card
    applies,            \* the handleApply invocations, by number
    nextApply,          \* the number of the next handleApply invocation
    \* history
    session,            \* how many times runAnalysis has run
    analyzeCalls,       \* runAnalysis calls waiting for analyzeData
    analyzeResp,        \* what analyzeData returned last
    lastRefine,         \* per card, the action of the last refine that succeeded
    overlapped,         \* some handleApply started while another was in flight
    budget,             \* how many clicks of each kind the user has left
    idProbe,            \* the input and result of a getNextReceiptId call
    probe               \* the input and result of a call of one function on its own

backendVars == <<spreadsheetId, sheetTabs, cells, ledger, greenCells>>
tableVars == <<tabs, activeTab, sheetData, shownFor, error, loading, initialLoad, fetches>>
panelVars == <<analysis, showAnalysis, analyzing, session, analyzeCalls, analyzeResp>>
cardVars == <<recStates, refines, lastRefine>>
applyVars == <<applies, nextApply, overlapped, highlightedCells>>
vars == <<backendVars, tableVars, panelVars, cardVars, applyVars, budget, idProbe, probe>>

\* RecCardState with every field undefined.
EmptyCard ==
    [loading |-> FALSE, applied |-> FALSE, error |-> None, modificationNotes |-> <<>>,
     modifying |-> FALSE, modifiedAction |-> NoObject]

CellKeys == { <<Tickets, B2>>, <<Tickets, B3>> }

\* The rows of a tab, as spreadsheets.values.get returns them.
TabValues(tab) ==
    IF tab = Tickets
    THEN << <<"Ticket", "Assignee">>,
            <<"T-1", cells[<<Tickets, B2>>]>>,
            <<"T-2", cells[<<Tickets, B3>>]>> >>
    ELSE IF IsReceiptsName(tab) THEN ledger
    ELSE <<>>

\* Column A of the receipts tab.
ColumnA(rows) == [k \in 1..Len(rows) |-> IF rows[k] = <<>> THEN NoText ELSE rows[k][1]]

\* A handleApply invocation: its closure (rec, notes, finalAction, wasModified,
\* activeTab), where it waits (pc, its request req and the response resp once
\* served), its locals (originalValue, receipt), and its history.  When it
\* ends only rec, session, log, the outcomes of its write and its append and the three
\* fields about its card are kept.
IdleApply ==
    [pc |-> "idle", rec |-> None, notes |-> <<>>, finalAction |-> NoObject,
     wasModified |-> FALSE, activeTab |-> <<>>, req |-> NoObject, resp |-> NoObject,
     originalValue |-> "", receipt |-> NoObject,
     log |-> <<>>,             \* the requests issued and the responses received
     session |-> 0,            \* the analysis session it was started in
     refined |-> NoObject,     \* lastRefine of its card when it started
     readError |-> FALSE,      \* its read-cell returned an error
     written |-> NoObject,     \* the arguments of its write-cell request
     writeOk |-> FALSE,        \* its write-cell took effect
     writeFailed |-> FALSE,    \* its write-cell returned a failure
     appendFailed |-> FALSE,   \* its append-receipt returned a failure
     beforeWrite |-> None,     \* the cell's content right before its write
     interfered |-> FALSE,     \* another write to the cell landed after its read
     scanLen |-> -1,           \* the ledger's length when its id scan read it
     appended |-> 0,           \* the ledger row its append-receipt added
     marked |-> FALSE,         \* its last step turned the card's applied flag on
     cardApplied |-> FALSE,    \* the card's applied flag after its last step
     cardError |-> None]       \* the card's error after its last step

\* The record of an invocation that has ended.
Ended(a, card, wasApplied) ==
    [IdleApply EXCEPT
        !.pc = "done",
        !.rec = a.rec,
        !.session = a.session,
        !.log = a.log \o << <<a.pc, "return">> >>,
        !.writeOk = a.writeOk,
        !.writeFailed = a.writeFailed,
        !.appendFailed = a.appendFailed,
        !.marked = card.applied /\ ~wasApplied,
        !.cardApplied = card.applied,
        !.cardError = card.error]

InFlight(i) == applies[i].pc \notin {"idle", "done"}

----------------------------------------------------------------------------
(* The renderer: handleApply (App.tsx) *)

\* The card of a recommendation is on screen with its controls.
CardVisible(r) ==
    /\ showAnalysis
    /\ ~analyzing
    /\ analysis # NoObject
    /\ analysis.error = None
    /\ \E k \in 1..Len(analysis.recommendations) : analysis.recommendations[k].id = r

\* state.modifiedAction || rec.action
FinalAction(state, rec) ==
    IF state.modifiedAction # NoObject THEN state.modifiedAction ELSE rec.action

\* Faulty variant of wasModified: the refinement is forgotten.
NeverModified(state) == FALSE

\* !!state.modifiedAction
WasModified(state) == state.modifiedAction # NoObject

\* Faulty variant of originalValue: the value read is dropped.
NoOriginalValue(cellResult) == ""

\* cellResult.value || ''
OriginalValue(cellResult) == IF cellResult.value # "" THEN cellResult.value ELSE ""

\* The arguments of the updateCell call.
WriteRequest(finalAction) ==
    [tab |-> finalAction.tab, range |-> finalAction.range, value |-> finalAction.newValue]

\* (rec.sourceReferences || []).join('; ')
RECURSIVE Join(_)
Join(refs) ==
    IF refs = <<>> THEN <<>>
    ELSE IF Len(refs) = 1 THEN refs[1]
    ELSE refs[1] \o <<";", " ">> \o Join(Tail(refs))

\* The receipt object handleApply assembles.
AssembleReceipt(a, receiptIdResult) ==
    LET rec == Recommendation(a.rec)
    IN  [receiptId |-> receiptIdResult.receiptId,
         timestamp |-> "now",
         recommendationId |-> rec.id,
         recommendationTitle |-> rec.title,
         category |-> IF rec.category # "" THEN rec.category ELSE "Other",
         tab |-> a.finalAction.tab,
         cell |-> a.finalAction.range,
         originalValue |-> a.originalValue,
         newValue |-> a.finalAction.newValue,
         modificationNotes |-> a.notes,
         wasModified |-> IF a.wasModified THEN "Yes" ELSE "No",
         sourceReferences |->
             Join(IF rec.sourceReferences # NoObject THEN rec.sourceReferences ELSE <<>>),
         appliedBy |-> "User",
         status |-> "Applied"]

\* Faulty variant of the applied card: { ...prev, applied: true }.
CardMergedApplied(prev) == [prev EXCEPT !.applied = TRUE]

\* The card after a successful apply: { applied: true }.
CardApplied(prev) == [EmptyCard EXCEPT !.applied = TRUE]

\* Faulty variant of the card after a failed apply: loading is left on.
CardFailedStillLoading(prev, result) ==
    [prev EXCEPT !.error = IF result.error # None THEN result.error ELSE "Update failed"]

\* The card after a failed apply: { ...prev, loading: false, error }.
CardFailed(prev, result) ==
    [prev EXCEPT !.loading = FALSE,
                 !.error = IF result.error # None THEN result.error ELSE "Update failed"]

\* `${finalAction.tab}:${finalAction.range}`
CellKey(action) == action.tab \o <<":">> \o action.range

\* loadSheetData(tabName) up to its await.
LoadSheetData(tabName) ==
    /\ loading' = TRUE
    /\ error' = None
    /\ fetches' = [fetches EXCEPT ![tabName] = @ + 1]

\* Faulty variant of the Apply button: disabled while any apply is in flight.
ApplyButtonOneAtATime(r) ==
    /\ ~recStates[r].applied
    /\ ~recStates[r].loading
    /\ \A i \in 1..MaxApplies : ~InFlight(i)

\* The Apply button of a card: rendered while the card is not applied,
\* disabled while it is loading.
ApplyButton(r) ==
    /\ ~recStates[r].applied
    /\ ~recStates[r].loading

\* handleApply up to its first await.
HandleApply(r) ==
    /\ CardVisible(r)
    /\ ApplyButton(r)
    /\ budget.applies > 0
    /\ budget' = [budget EXCEPT !.applies = @ - 1]
    /\ LET state == recStates[r]
           finalAction == FinalAction(state, Recommendation(r))
       IN  applies' = [applies EXCEPT ![nextApply] =
               [IdleApply EXCEPT
                   !.pc = "read",
                   !.rec = r,
                   !.notes = state.modificationNotes,
                   !.finalAction = finalAction,
                   !.wasModified = WasModified(state),
                   !.activeTab = activeTab,
                   !.req = [tab |-> finalAction.tab, range |-> finalAction.range],
                   !.log = << <<"read", "call">> >>,
                   !.session = session,
                   !.refined = lastRefine[r]]]
    /\ recStates' = [recStates EXCEPT ![r].loading = TRUE]
    /\ overlapped' = (overlapped \/ \E i \in 1..MaxApplies : InFlight(i))
    /\ nextApply' = nextApply + 1
    /\ UNCHANGED <<backendVars, tableVars, panelVars, refines, lastRefine,
                   highlightedCells, idProbe, probe>>

\* The main process serves get-cell-value.
ServeGetCellValue(i) ==
    /\ applies[i].pc = "read"
    /\ applies[i].resp = NoObject
    /\ \E apiOk \in BOOLEAN :
         LET key == <<applies[i].req.tab, applies[i].req.range>>
             known == key \in CellKeys
             result == getCellValue(spreadsheetId, apiOk /\ known,
                                    IF known THEN cells[key] ELSE "")
         IN  applies' = [applies EXCEPT
                 ![i].resp = result,
                 ![i].readError = (result.error # None)]
    /\ UNCHANGED <<backendVars, tableVars, panelVars, cardVars, nextApply, overlapped,
                   highlightedCells, budget, idProbe, probe>>

\* Faulty variant of the step after the read: updateCell and getNextReceiptId
\* are called together, the second without awaiting the first.
ApplyAfterReadUnawaited(i) ==
    /\ applies[i].pc = "read"
    /\ applies[i].resp # NoObject
    /\ applies' = [applies EXCEPT
           ![i].originalValue = OriginalValue(applies[i].resp),
           ![i].pc = "write",
           ![i].req = WriteRequest(applies[i].finalAction),
           ![i].resp = NoObject,
           ![i].log = @ \o << <<"read", "return">>, <<"write", "call">>, <<"id", "call">> >>]
    /\ UNCHANGED <<backendVars, tableVars, panelVars, cardVars, nextApply, overlapped,
                   highlightedCells, budget, idProbe, probe>>

\* handleApply from the read's result to the updateCell call.
ApplyAfterRead(i) ==
    /\ applies[i].pc = "read"
    /\ applies[i].resp # NoObject
    /\ applies' = [applies EXCEPT
           ![i].originalValue = OriginalValue(applies[i].resp),
           ![i].pc = "write",
           ![i].req = WriteRequest(applies[i].finalAction),
           ![i].resp = NoObject,
           ![i].log = @ \o << <<"read", "return">>, <<"write", "call">> >>]
    /\ UNCHANGED <<backendVars, tableVars, panelVars, cardVars, nextApply, overlapped,
                   highlightedCells, budget, idProbe, probe>>

\* Another invocation has read the cell and its own write has not landed yet.
BetweenReadAndWrite(a, key) ==
    /\ \/ a.pc = "read" /\ a.resp # NoObject
       \/ a.pc = "write" /\ a.resp = NoObject
    /\ <<a.finalAction.tab, a.finalAction.range>> = key

\* The main process serves update-cell: the value write, then the background.
ServeUpdateCell(i) ==
    /\ applies[i].pc = "write"
    /\ applies[i].resp = NoObject
    /\ \E apiOk \in BOOLEAN, bgOk \in BOOLEAN :
         LET req == applies[i].req
             key == <<req.tab, req.range>>
             out == updateCell(spreadsheetId, apiOk /\ key \in CellKeys, bgOk, bgOk,
                               sheetTabs, req.tab, req.range)
             result == [success |-> out.success, error |-> out.error]
         IN  /\ applies' = [j \in 1..MaxApplies |->
                   IF j = i
                   THEN [applies[i] EXCEPT
                           !.resp = result,
                           !.written = req,
                           !.writeOk = result.success,
                           !.writeFailed = ~result.success,
                           !.beforeWrite = IF result.success THEN cells[key] ELSE None]
                   ELSE IF result.success /\ BetweenReadAndWrite(applies[j], key)
                   THEN [applies[j] EXCEPT !.interfered = TRUE]
                   ELSE applies[j]]
             /\ cells' = IF result.success THEN [cells EXCEPT ![key] = req.value] ELSE cells
             /\ greenCells' = greenCells \cup out.background.cells
             \* the background call is made only after the value write succeeded
             /\ result.success \/ bgOk
    /\ UNCHANGED <<spreadsheetId, sheetTabs, ledger, tableVars, panelVars, cardVars,
                   nextApply, overlapped, highlightedCells, budget, idProbe, probe>>

\* Faulty variant of the test of updateCell's result: the result is not looked at.
WriteAssumedSucceeded(result) == TRUE

\* if (result.success)
WriteSucceeded(result) == result.success

\* handleApply from updateCell's result: on success the getNextReceiptId call,
\* otherwise the card's error.
ApplyAfterWrite(i) ==
    /\ applies[i].pc = "write"
    /\ applies[i].resp # NoObject
    /\ LET a == applies[i]
           card == CardFailed(recStates[a.rec], a.resp)
       IN  IF WriteSucceeded(a.resp)
           THEN /\ applies' = [applies EXCEPT
                       ![i].pc = "id",
                       ![i].req = NoObject,
                       ![i].resp = NoObject,
                       ![i].log = @ \o << <<"write", "return">>, <<"id", "call">> >>]
                /\ UNCHANGED recStates
           ELSE /\ applies' = [applies EXCEPT
                       ![i] = Ended(a, card, recStates[a.rec].applied)]
                /\ recStates' = [recStates EXCEPT ![a.rec] = card]
    /\ UNCHANGED <<backendVars, tableVars, panelVars, refines, lastRefine,
                   nextApply, overlapped, highlightedCells, budget, idProbe, probe>>

\* The main process serves get-next-receipt-id.
ServeGetNextReceiptId(i) ==
    /\ applies[i].pc = "id"
    /\ applies[i].resp = NoObject
    /\ \E tabsOk \in BOOLEAN, columnOk \in BOOLEAN :
         /\ tabsOk \/ columnOk    \* column A is read only after the tabs were listed
         /\ applies' = [applies EXCEPT
               ![i].resp = getNextReceiptId(spreadsheetId,
                                            getSheetTabs(spreadsheetId, tabsOk, sheetTabs),
                                            columnOk, ColumnA(ledger)),
               ![i].scanLen = Len(ledger)]
    /\ UNCHANGED <<backendVars, tableVars, panelVars, cardVars, nextApply, overlapped,
                   highlightedCells, budget, idProbe, probe>>

\* handleApply from the receipt id to the appendReceipt call.
ApplyAfterId(i) ==
    /\ applies[i].pc = "id"
    /\ applies[i].resp # NoObject
    /\ LET receipt == AssembleReceipt(applies[i], applies[i].resp)
       IN  applies' = [applies EXCEPT
               ![i].pc = "append",
               ![i].receipt = receipt,
               ![i].req = receipt,
               ![i].resp = NoObject,
               ![i].log = @ \o << <<"id", "return">>, <<"append", "call">> >>]
    /\ UNCHANGED <<backendVars, tableVars, panelVars, cardVars, nextApply, overlapped,
                   highlightedCells, budget, idProbe, probe>>

\* The row of a receipt: its fields in the order of ReceiptRow.
ReceiptValues(receipt) ==
    <<receipt.receiptId, receipt.timestamp, receipt.recommendationId,
      receipt.recommendationTitle, receipt.category, receipt.tab, receipt.cell,
      receipt.originalValue, receipt.newValue, receipt.modificationNotes,
      receipt.wasModified, receipt.sourceReferences, receipt.appliedBy, receipt.status>>

\* The append-receipt handler: appendRow of the receipt's row to the receipts tab.
appendReceipt(hasId, tabsResult, apiOk) ==
    IF findReceiptsTab(tabsResult) = NoText
    THEN [success |-> FALSE, error |-> "Receipts tab not found in spreadsheet"]
    ELSE appendRow(hasId, apiOk)

\* The main process serves append-receipt.
ServeAppendReceipt(i) ==
    /\ applies[i].pc = "append"
    /\ applies[i].resp = NoObject
    /\ \E tabsOk \in BOOLEAN, apiOk \in BOOLEAN :
         LET result == appendReceipt(spreadsheetId,
                                     getSheetTabs(spreadsheetId, tabsOk, sheetTabs), apiOk)
         IN  /\ tabsOk \/ apiOk    \* the row is appended only after the tabs were listed
             /\ ledger' = IF result.success
                          THEN Append(ledger, ReceiptValues(applies[i].req))
                          ELSE ledger
             /\ applies' = [applies EXCEPT
                   ![i].resp = result,
                   ![i].appendFailed = ~result.success,
                   ![i].appended = IF result.success THEN Len(ledger) + 1 ELSE 0]
    /\ UNCHANGED <<spreadsheetId, sheetTabs, cells, greenCells, tableVars, panelVars,
                   cardVars, nextApply, overlapped, highlightedCells, budget, idProbe, probe>>

\* handleApply from appendReceipt's result to its end: the card is applied, the
\* cell highlighted, and the table reloaded when the written tab was on screen.
ApplyAfterAppend(i) ==
    /\ applies[i].pc = "append"
    /\ applies[i].resp # NoObject
    /\ LET a == applies[i]
           card == CardApplied(recStates[a.rec])
       IN  /\ applies' = [applies EXCEPT
                   ![i] = Ended(a, card, recStates[a.rec].applied)]
           /\ recStates' = [recStates EXCEPT ![a.rec] = card]
           /\ highlightedCells' = highlightedCells \cup {CellKey(a.finalAction)}
           /\ IF a.activeTab = a.finalAction.tab
              THEN LoadSheetData(a.finalAction.tab)
              ELSE UNCHANGED <<loading, error, fetches>>
    /\ UNCHANGED <<backendVars, tabs, activeTab, sheetData, shownFor, initialLoad, panelVars,
                   refines, lastRefine, nextApply, overlapped, budget, idProbe, probe>>

----------------------------------------------------------------------------
(* The renderer: the notes field and handleModify *)

\* The notes field of a card: rendered while the card is not applied, disabled
\* while it is loading or modifying.
SetModificationNotes(r, notes) ==
    /\ CardVisible(r)
    /\ ~recStates[r].applied
    /\ ~recStates[r].loading
    /\ ~recStates[r].modifying
    /\ notes # recStates[r].modificationNotes
    /\ budget.edits > 0
    /\ budget' = [budget EXCEPT !.edits = @ - 1]
    /\ recStates' = [recStates EXCEPT ![r].modificationNotes = notes]
    /\ UNCHANGED <<backendVars, tableVars, panelVars, refines, lastRefine, applyVars,
                   idProbe, probe>>

\* The Modify button: rendered while the card is not applied, disabled while it
\* is loading or modifying or its notes are blank.  handleModify up to its await.
HandleModify(r) ==
    /\ CardVisible(r)
    /\ ~recStates[r].applied
    /\ ~recStates[r].loading
    /\ ~recStates[r].modifying
    /\ Trim(recStates[r].modificationNotes) # <<>>
    /\ budget.modifies > 0
    /\ budget' = [budget EXCEPT !.modifies = @ - 1]
    /\ recStates' = [recStates EXCEPT ![r].modifying = TRUE, ![r].error = None]
    /\ refines' = [refines EXCEPT ![r] = @ + 1]
    /\ UNCHANGED <<backendVars, tableVars, panelVars, lastRefine, applyVars, idProbe, probe>>

\* Faulty variant of the card after a refine: the previous card is not spread.
CardReplacedByModify(prev, modResult) ==
    IF "error" \in DOMAIN modResult
    THEN [EmptyCard EXCEPT !.error = modResult.error]
    ELSE [EmptyCard EXCEPT !.modifiedAction = modResult]

\* Faulty variant of the card after a refine: modifying is left on.
CardStillModifying(prev, modResult) ==
    IF "error" \in DOMAIN modResult
    THEN [prev EXCEPT !.error = modResult.error]
    ELSE [prev EXCEPT !.modifiedAction = modResult]

\* The card after a refine: { ...prev, modifying: false, error } or
\* { ...prev, modifying: false, modifiedAction }.
CardModified(prev, modResult) ==
    IF "error" \in DOMAIN modResult
    THEN [prev EXCEPT !.modifying = FALSE, !.error = modResult.error]
    ELSE [prev EXCEPT !.modifying = FALSE, !.modifiedAction = modResult]

\* handleModify from modifyRecommendation's result to its end.
ModifyReturn(r, modResult) ==
    /\ refines[r] > 0
    /\ refines' = [refines EXCEPT ![r] = @ - 1]
    /\ recStates' = [recStates EXCEPT ![r] = CardModified(recStates[r], modResult)]
    /\ lastRefine' = IF "error" \in DOMAIN modResult
                     THEN lastRefine
                     ELSE [lastRefine EXCEPT ![r] = modResult]
    /\ UNCHANGED <<backendVars, tableVars, panelVars, applyVars, budget, idProbe, probe>>

----------------------------------------------------------------------------
(* The renderer: the analysis panel *)

\* Faulty variant of the Analyze button: never disabled.
AnalyzeButtonAlwaysOn == TRUE

\* The Analyze button, disabled while analyzing.
AnalyzeButton == ~analyzing

\* runAnalysis up to its await.
RunAnalysis ==
    /\ AnalyzeButton
    /\ budget.analyses > 0
    /\ budget' = [budget EXCEPT !.analyses = @ - 1]
    /\ analyzing' = TRUE
    /\ showAnalysis' = TRUE
    /\ analysis' = NoObject
    /\ recStates' = [r \in Recs |-> EmptyCard]
    /\ lastRefine' = [r \in Recs |-> NoObject]
    /\ session' = session + 1
    /\ analyzeCalls' = analyzeCalls + 1
    /\ UNCHANGED <<backendVars, tableVars, refines, applyVars, analyzeResp, idProbe, probe>>

\* runAnalysis from analyzeData's result to its end.
AnalyzeReturn(result) ==
    /\ analyzeCalls > 0
    /\ analyzeCalls' = analyzeCalls - 1
    /\ analyzeResp' = result
    /\ analysis' = result
    /\ analyzing' = FALSE
    /\ UNCHANGED <<backendVars, tableVars, showAnalysis, session, cardVars, applyVars,
                   budget, idProbe, probe>>

\* The panel's close button.
CloseAnalysis ==
    /\ showAnalysis
    /\ showAnalysis' = FALSE
    /\ UNCHANGED <<backendVars, tableVars, analysis, analyzing, session, analyzeCalls,
                   analyzeResp, cardVars,
                   applyVars, budget, idProbe, probe>>

----------------------------------------------------------------------------
(* The renderer: tabs and the table *)

AllTabs == {Tickets, Reciepts, Pipeline, Approved, Rejected}

\* Names that every object literal answers to: mockData[tabName] finds the
\* member inherited from Object.prototype, which is truthy.
ObjectPrototypeKeys ==
    { <<"c", "o", "n", "s", "t", "r", "u", "c", "t", "o", "r">>,
      <<"t", "o", "S", "t", "r", "i", "n", "g">>,
      <<"v", "a", "l", "u", "e", "O", "f">> }

MockData(tabName) ==
    IF tabName = Pipeline
    THEN [headers |-> <<"Company", "Stage", "Amount", "Contact">>,
          rows |-> << <<"Acme Corp", "Proposal", "$50,000", "john@acme.com">>,
                      <<"TechStart", "Negotiation", "$75,000", "sarah@techstart.io">>,
                      <<"GlobalInc", "Discovery", "$120,000", "mike@globalinc.com">> >>]
    ELSE IF tabName = Approved
    THEN [headers |-> <<"Company", "Amount", "Close Date", "Owner">>,
          rows |-> << <<"BigCo", "$200,000", "2024-01-15", "Alice">>,
                      <<"MegaCorp", "$350,000", "2024-02-20", "Bob">> >>]
    ELSE IF tabName = Rejected
    THEN [headers |-> <<"Company", "Reason", "Date", "Notes">>,
          rows |-> << <<"SmallBiz", "Budget constraints", "2024-01-10", "May revisit Q3">> >>]
    ELSE IF tabName \in ObjectPrototypeKeys THEN [inherited |-> tabName]
    ELSE [headers |-> <<"No data">>, rows |-> <<>>]

\* Faulty variant of getSheetData: rows without cells are left out.
getSheetDataCompacted(hasId, apiOk, tabName, values) ==
    LET HasCells(row) == row # <<>>
    IN  IF ~hasId THEN MockData(tabName)
        ELSE IF ~apiOk THEN [error |-> "Failed to fetch data"]
        ELSE IF Len(values) = 0 THEN [headers |-> <<>>, rows |-> <<>>]
        ELSE [headers |-> values[1], rows |-> SelectSeq(Tail(values), HasCells)]

\* getSheetData: {headers, rows} of the tab's rows, or {error}.
getSheetData(hasId, apiOk, tabName, values) ==
    IF ~hasId THEN MockData(tabName)
    ELSE IF ~apiOk THEN [error |-> "Failed to fetch data"]
    ELSE IF Len(values) = 0 THEN [headers |-> <<>>, rows |-> <<>>]
    ELSE [headers |-> values[1], rows |-> Tail(values)]

\* loadInitialData from its two results to its end, and the effect of the new
\* active tab.  No document is configured: getDocContent answers null.
LoadInitialDataReturn ==
    /\ initialLoad
    /\ initialLoad' = FALSE
    /\ \E apiOk \in BOOLEAN :
         LET tabResult == getSheetTabs(spreadsheetId, apiOk, sheetTabs)
         IN  IF ~tabResult.isArray
             THEN /\ error' = tabResult.error
                  /\ tabs' = <<>>
                  /\ loading' = FALSE
                  /\ UNCHANGED <<activeTab, fetches>>
             ELSE /\ tabs' = tabResult.tabs
                  /\ IF Len(tabResult.tabs) > 0 /\ tabResult.tabs[1] # activeTab
                     THEN /\ activeTab' = tabResult.tabs[1]
                          /\ LoadSheetData(tabResult.tabs[1])
                     ELSE /\ loading' = FALSE
                          /\ UNCHANGED <<activeTab, error, fetches>>
    /\ UNCHANGED <<backendVars, sheetData, shownFor, panelVars, cardVars, applyVars, budget,
                   idProbe, probe>>

\* loadSheetData from getSheetData's result to its end.
LoadSheetDataReturn(tabName) ==
    /\ fetches[tabName] > 0
    /\ fetches' = [fetches EXCEPT ![tabName] = @ - 1]
    /\ \E apiOk \in BOOLEAN :
         LET result == getSheetData(spreadsheetId, apiOk, tabName, TabValues(tabName))
         IN  IF "error" \in DOMAIN result
             THEN error' = result.error /\ sheetData' = NoObject /\ shownFor' = <<>>
             ELSE sheetData' = result /\ shownFor' = tabName /\ UNCHANGED error
    /\ loading' = FALSE
    /\ UNCHANGED <<backendVars, tabs, activeTab, initialLoad, panelVars, cardVars,
                   applyVars, budget, idProbe, probe>>

\* A tab button, and the effect of a new active tab.
HandleTabClick(tab) ==
    /\ \E k \in 1..Len(tabs) : tabs[k] = tab
    /\ budget.loads > 0
    /\ budget' = [budget EXCEPT !.loads = @ - 1]
    /\ activeTab' = tab
    /\ IF tab # activeTab
       THEN LoadSheetData(tab)
       ELSE error' = None /\ UNCHANGED <<loading, fetches>>
    /\ UNCHANGED <<backendVars, tabs, sheetData, shownFor, initialLoad, panelVars, cardVars,
                   applyVars, idProbe, probe>>

\* The Refresh button, disabled while loading.
HandleRefresh ==
    /\ ~loading
    /\ budget.loads > 0
    /\ budget' = [budget EXCEPT !.loads = @ - 1]
    /\ activeTab # <<>>
    /\ LoadSheetData(activeTab)
    /\ UNCHANGED <<backendVars, tabs, activeTab, sheetData, shownFor, initialLoad, panelVars,
                   cardVars, applyVars, idProbe, probe>>

----------------------------------------------------------------------------
(* The specification *)

\* The receipts tab as the run finds it: no receipts yet, or a header row and
\* one earlier receipt.
InitialLedgers ==
    { << <<<<"I", "D">>>>, <<FirstReceiptId>> >> }

InitBackend ==
    /\ spreadsheetId \in BOOLEAN
    /\ sheetTabs \in {<<Tickets, Reciepts>>, <<Tickets>>}
    /\ cells = [key \in CellKeys |-> IF key[2] = B2 THEN "x" ELSE ""]
    /\ ledger \in InitialLedgers
    /\ greenCells = {}

InitPanel ==
    /\ analysis = NoObject
    /\ showAnalysis = FALSE
    /\ analyzing = FALSE
    /\ session = 0
    /\ analyzeCalls = 0
    /\ analyzeResp = NoObject
    /\ recStates = [r \in Recs |-> EmptyCard]
    /\ refines = [r \in Recs |-> 0]
    /\ lastRefine = [r \in Recs |-> NoObject]
    /\ applies = [i \in 1..MaxApplies |-> IdleApply]
    /\ nextApply = 1
    /\ overlapped = FALSE
    /\ highlightedCells = {}
    /\ idProbe = NoObject

\* The table once loadInitialData and the first tab's load have returned, on
\* the first tab or on a tab the user has picked since.
InitTableLoaded ==
    /\ tabs = getSheetTabs(spreadsheetId, TRUE, sheetTabs).tabs
    /\ activeTab \in {tabs[k] : k \in 1..Len(tabs)}
    /\ sheetData = getSheetData(spreadsheetId, TRUE, activeTab, TabValues(activeTab))
    /\ shownFor = activeTab
    /\ error = None
    /\ loading = FALSE
    /\ initialLoad = FALSE
    /\ fetches = [t \in AllTabs |-> 0]

\* What the user does in one run: Apply on up to MaxApplies cards of one
\* analysis; or one Apply with a notes edit and a Modify click among
\* re-analyses; or one Apply among notes edits and Modify clicks; or one Apply
\* among tab changes and refreshes.
Scenarios ==
    { [applies |-> MaxApplies, analyses |-> 1, edits |-> 0, modifies |-> 0, loads |-> 0],
      [applies |-> 1, analyses |-> MaxAnalyses, edits |-> 1, modifies |-> 1, loads |-> 0],
      [applies |-> 1, analyses |-> 1, edits |-> MaxEdits, modifies |-> MaxRefines,
       loads |-> 0],
      [applies |-> 1, analyses |-> 1, edits |-> 0, modifies |-> 0, loads |-> MaxFetches] }

Init ==
    /\ InitBackend /\ InitTableLoaded /\ InitPanel
    /\ budget \in Scenarios
    /\ probe = NoObject

Next ==
    \/ \E r \in Recs : HandleApply(r)
    \/ \E i \in 1..MaxApplies : ServeGetCellValue(i)
    \/ \E i \in 1..MaxApplies : ApplyAfterRead(i)
    \/ \E i \in 1..MaxApplies : ServeUpdateCell(i)
    \/ \E i \in 1..MaxApplies : ApplyAfterWrite(i)
    \/ \E i \in 1..MaxApplies : ServeGetNextReceiptId(i)
    \/ \E i \in 1..MaxApplies : ApplyAfterId(i)
    \/ \E i \in 1..MaxApplies : ServeAppendReceipt(i)
    \/ \E i \in 1..MaxApplies : ApplyAfterAppend(i)
    \/ \E r \in Recs, notes \in NotesInputs : SetModificationNotes(r, notes)
    \/ \E r \in Recs : HandleModify(r)
    \/ \E r \in Recs, modResult \in ModifyResults : ModifyReturn(r, modResult)
    \/ RunAnalysis
    \/ \E result \in AnalysisResults : AnalyzeReturn(result)
    \/ \E tab \in AllTabs : HandleTabClick(tab)
    \/ HandleRefresh
    \/ \E tab \in AllTabs : LoadSheetDataReturn(tab)

Spec == Init /\ [][Next]_vars

----------------------------------------------------------------------------
(* getNextReceiptId over the receipts tabs it may find *)

\* What a row of the receipts tab may hold in column A; <<>> is a row with no cells.
LedgerRows ==
    { <<<<"R", "E", "C", "-", "0", "0", "1">>>>,
      <<<<"R", "E", "C", "-", "0", "0", "2">>>>,
      <<<<"R", "E", "C", "-", "0", "0", "7">>>>,
      <<<<"R", "E", "C", "-", "0", "0", "9">>>>,
      <<<<"R", "E", "C", "-", "9", "9">>>>,
      <<<<"R", "E", "C", "-", "9", "9", "9">>>>,
      <<<<"r", "e", "c", "-", "0", "1", "5">>>>,
      <<<<"R", "E", "C", "-", "2", "0", "a">>>>,
      <<<<" ", "R", "E", "C", "-", "3", "0">>>>,
      <<<<"R", "E", "C", "-">>>>,
      <<>> }

RECURSIVE RowsUpTo(_)
RowsUpTo(n) ==
    IF n = 0 THEN {<<>>}
    ELSE LET shorter == RowsUpTo(n - 1)
         IN  shorter \cup {Append(rows, row) : rows \in shorter, row \in LedgerRows}

\* The tab lists: a receipts tab under either spelling, in any case and spacing, or none.
ReceiptTabLists ==
    { <<Tickets, Reciepts>>,
      <<Tickets, <<"R", "E", "C", "E", "I", "P", "T", "S", " ">>>>,
      <<Tickets>> }

InitReceiptId ==
    /\ spreadsheetId \in BOOLEAN
    /\ sheetTabs \in ReceiptTabLists
    /\ cells = [key \in CellKeys |-> ""]
    /\ ledger \in RowsUpTo(MaxLedger)
    /\ greenCells = {}
    /\ InitTableLoaded
    /\ InitPanel
    /\ budget = [applies |-> 0, analyses |-> 0, edits |-> 0, modifies |-> 0, loads |-> 0]
    /\ probe = NoObject

\* One get-next-receipt-id request served; idProbe keeps what it read and answered.
ProbeGetNextReceiptId ==
    /\ idProbe = NoObject
    /\ \E tabsOk \in BOOLEAN, columnOk \in BOOLEAN :
         LET tabsResult == getSheetTabs(spreadsheetId, tabsOk, sheetTabs)
         IN  /\ tabsOk \/ columnOk
             /\ idProbe' = [hasId |-> spreadsheetId,
                            tabsResult |-> tabsResult,
                            columnOk |-> columnOk,
                            column |-> ColumnA(ledger),
                            result |-> getNextReceiptId(spreadsheetId, tabsResult,
                                                        columnOk, ColumnA(ledger))]
    /\ UNCHANGED <<backendVars, tableVars, panelVars, cardVars, applyVars, budget, probe>>

SpecReceiptId == InitReceiptId /\ [][ProbeGetNextReceiptId]_vars

----------------------------------------------------------------------------
(* Functions called on their own: probe keeps one call's inputs and result *)

\* The dashboard at rest: nothing in flight and no click left.
InitAtRest ==
    /\ spreadsheetId = TRUE
    /\ sheetTabs = <<Tickets, Reciepts>>
    /\ cells = [key \in CellKeys |-> ""]
    /\ ledger \in InitialLedgers
    /\ greenCells = {}
    /\ tabs = getSheetTabs(spreadsheetId, TRUE, sheetTabs).tabs
    /\ activeTab = Tickets
    /\ sheetData = getSheetData(spreadsheetId, TRUE, activeTab, TabValues(activeTab))
    /\ shownFor = activeTab
    /\ error = None
    /\ loading = FALSE
    /\ initialLoad = FALSE
    /\ fetches = [t \in AllTabs |-> 0]
    /\ InitPanel
    /\ budget = [applies |-> 0, analyses |-> 0, edits |-> 0, modifies |-> 0, loads |-> 0]

restVars == <<backendVars, tableVars, panelVars, cardVars, applyVars, budget, idProbe>>

(* updateCell *)

\* Cell references update-cell may be given: well formed, lower case, two
\* letters, row 0, and text that is no cell reference.
RangeInputs ==
    { B2, <<"b", "3">>, <<"A", "A", "1", "0">>, <<"B", "0">>,
      <<"B">>, <<"2", "B">>, <<"B", " ", "2">>, <<>> }

InitUpdateCell ==
    /\ InitAtRest
    /\ probe \in [hasId : BOOLEAN, apiOk : BOOLEAN, metaOk : BOOLEAN, batchOk : BOOLEAN,
                  titles : {<<>>, <<Tickets>>, <<Tickets, Reciepts>>},
                  tab : {Tickets, Reciepts},
                  range : RangeInputs,
                  called : {FALSE}, out : {NoObject}]

ProbeUpdateCell ==
    /\ ~probe.called
    /\ probe' = [probe EXCEPT
                   !.called = TRUE,
                   !.out = updateCell(probe.hasId, probe.apiOk, probe.metaOk, probe.batchOk,
                                      probe.titles, probe.tab, probe.range)]
    /\ UNCHANGED restVars

SpecUpdateCell == InitUpdateCell /\ [][ProbeUpdateCell]_vars

(* analyzeData (llm.ts) *)

\* The model's reply is text over a small alphabet: backticks, word characters,
\* spaces and newlines, braces, and ":" standing for the members the model wrote
\* between the braces.
IsWord(c) == IsLetter(c) \/ IsDigit(c) \/ c = "_"

\* The backtick, written "^": a string of this language cannot hold a backtick.
Tick == "^"

Fence == <<Tick, Tick, Tick>>

StartsWith(s, prefix) == Len(s) >= Len(prefix) /\ SubSeq(s, 1, Len(prefix)) = prefix

EndsWith(s, suffix) ==
    Len(s) >= Len(suffix) /\ SubSeq(s, Len(s) - Len(suffix) + 1, Len(s)) = suffix

RECURSIVE SkipWord(_)
SkipWord(s) == IF s # <<>> /\ IsWord(s[1]) THEN SkipWord(Tail(s)) ELSE s

\* .replace(/^```[\w]*\n?/, '')
StripOpeningFence(s) ==
    IF StartsWith(s, Fence)
    THEN LET rest == SkipWord(SubSeq(s, 4, Len(s)))
         IN  IF rest # <<>> /\ rest[1] = "\n" THEN Tail(rest) ELSE rest
    ELSE s

\* .replace(/\n?```$/, '')
StripClosingFence(s) ==
    IF EndsWith(s, Fence)
    THEN LET body == SubSeq(s, 1, Len(s) - 3)
         IN  IF body # <<>> /\ body[Len(body)] = "\n"
             THEN SubSeq(body, 1, Len(body) - 1)
             ELSE body
    ELSE s

\* indexOf and lastIndexOf, counted from 1; 0 when the character is absent.
IndexOf(s, c) ==
    IF \E k \in 1..Len(s) : s[k] = c
    THEN CHOOSE k \in 1..Len(s) : s[k] = c /\ \A j \in 1..(k - 1) : s[j] # c
    ELSE 0

LastIndexOf(s, c) ==
    IF \E k \in 1..Len(s) : s[k] = c
    THEN CHOOSE k \in 1..Len(s) : s[k] = c /\ \A j \in (k + 1)..Len(s) : s[j] # c
    ELSE 0

\* Faulty variant of the extraction: fences are stripped, nothing is sliced.
ExtractJsonUnsliced(text) == StripClosingFence(StripOpeningFence(Trim(text)))

\* The text handed to JSON.parse: trimmed, fences stripped, and cut from the
\* first "{" to the last "}" when there is such a pair.
ExtractJson(text) ==
    LET jsonStr == StripClosingFence(StripOpeningFence(Trim(text)))
        firstBrace == IndexOf(jsonStr, "{")
        lastBrace == LastIndexOf(jsonStr, "}")
    IN  IF firstBrace # 0 /\ lastBrace > firstBrace
        THEN SubSeq(jsonStr, firstBrace, lastBrace)
        ELSE jsonStr

RECURSIVE Compact(_)
Compact(s) ==
    IF s = <<>> THEN <<>>
    ELSE IF IsSpace(s[1]) THEN Compact(Tail(s))
    ELSE <<s[1]>> \o Compact(Tail(s))

\* The object without members.
EmptyObject == [k \in {} |-> NoObject]

\* The value null.
NullValue == [null |-> TRUE]

\* JSON.parse: whitespace between tokens is insignificant; "{:}" is the object
\* with the members the model wrote, "{}" the empty object, "n" the literal
\* null, and any other text of the alphabet is a syntax error.
JsonParse(jsonStr, members) ==
    IF Compact(jsonStr) = <<"{", ":", "}">> THEN [ok |-> TRUE, value |-> members]
    ELSE IF Compact(jsonStr) = <<"{", "}">> THEN [ok |-> TRUE, value |-> EmptyObject]
    ELSE IF Compact(jsonStr) = <<"n">> THEN [ok |-> TRUE, value |-> NullValue]
    ELSE [ok |-> FALSE, value |-> EmptyObject]

ErrorResult(message) == [summary |-> "", recommendations |-> <<>>, error |-> message]

\* What one call of analyzeData did: whether it threw, the result it returned,
\* the tab sections it put in the prompt, and the model calls it made.
Returned(result, sections, modelCalls) ==
    [threw |-> FALSE, result |-> result, sections |-> sections, modelCalls |-> modelCalls]

\* Faulty variant of the catch block: the exception goes on to the caller.
Uncaught(message, sections, modelCalls) ==
    [threw |-> TRUE, result |-> EmptyObject, sections |-> sections,
     modelCalls |-> modelCalls]

\* The catch block: { summary: '', recommendations: [], error: `Analysis failed: ...` }.
Caught(message, sections, modelCalls) ==
    Returned(ErrorResult(message), sections, modelCalls)

\* Faulty variant of the loop over the tabs: it stops at the first tab in error.
RECURSIVE SectionsUntilError(_, _)
SectionsUntilError(tabList, dataOf) ==
    IF tabList = <<>> THEN <<>>
    ELSE LET tab == Head(tabList)
             data == dataOf[tab]
         IN  IF "error" \in DOMAIN data THEN <<>>
             ELSE <<[tab |-> tab, headers |-> data.headers, rows |-> data.rows]>>
                  \o SectionsUntilError(Tail(tabList), dataOf)

\* The loop over the tabs: one section per tab whose data came without error.
RECURSIVE Sections(_, _)
Sections(tabList, dataOf) ==
    IF tabList = <<>> THEN <<>>
    ELSE LET tab == Head(tabList)
             data == dataOf[tab]
             rest == Sections(Tail(tabList), dataOf)
         IN  IF "error" \in DOMAIN data THEN rest
             ELSE <<[tab |-> tab, headers |-> data.headers, rows |-> data.rows]>> \o rest

\* analyzeData: hasKey is ANTHROPIC_API_KEY being set, tabsResult and dataOf what
\* getSheetTabs and getSheetData answer, reply what messages.create does (throws,
\* answers without a text block, or answers with text).
analyzeData(hasKey, tabsResult, dataOf, reply) ==
    IF ~hasKey
    THEN Returned(ErrorResult("ANTHROPIC_API_KEY not set in .env"), <<>>, 0)
    ELSE LET tabList == IF tabsResult.isArray THEN tabsResult.tabs ELSE <<>>
             sections == Sections(tabList, dataOf)
         IN  IF reply.kind = "throws"
             THEN Caught("Analysis failed: request failed", sections, 1)
             ELSE IF reply.kind = "noText"
             THEN Returned(ErrorResult("No text response from Claude"), sections, 1)
             ELSE LET parsed == JsonParse(ExtractJson(reply.text), reply.members)
                  IN  IF ~parsed.ok
                      THEN Caught("Analysis failed: Unexpected token", sections, 1)
                      ELSE IF "recommendations" \notin DOMAIN parsed.value
                      THEN Caught("Analysis failed: Cannot read properties of undefined",
                                  sections, 1)
                      ELSE IF parsed.value.recommendations = NullValue
                      THEN Caught("Analysis failed: Cannot read properties of null",
                                  sections, 1)
                      ELSE Returned(parsed.value, sections, 1)

\* What the model wrote between the braces, and the texts it may reply with:
\* bare JSON, fenced with and without a language tag and newlines, with prose
\* or whitespace around it, the empty object, the literal null (written n),
\* and text that is no JSON.
ModelMembers ==
    [summary |-> "s", recommendations |-> <<Recommendation("r1"), Recommendation("r2")>>]

ReplyTexts ==
    { <<"{", ":", "}">>,
      <<Tick, Tick, Tick, "j", "\n", "{", ":", "}", "\n", Tick, Tick, Tick>>,
      <<Tick, Tick, Tick, "{", ":", "}", Tick, Tick, Tick>>,
      <<"x", " ", "{", ":", "}", " ", "x">>,
      <<" ", "{", " ", ":", "}", "\n">>,
      <<"{", "}">>,
      <<"x">>,
      <<"{", ":">>,
      <<"}", "{">>,
      <<"{", "{", ":", "}">>,
      <<"n">>,
      <<>> }

Replies ==
    { [kind |-> "throws", text |-> <<>>, members |-> ModelMembers],
      [kind |-> "noText", text |-> <<>>, members |-> ModelMembers] }
    \cup [kind : {"text"}, text : ReplyTexts, members : {ModelMembers}]

AnalyzedTabs == <<Tickets, Reciepts, Pipeline>>

InitAnalyze ==
    /\ InitAtRest
    /\ probe \in [hasKey : BOOLEAN, tabsOk : BOOLEAN,
                  failing : SUBSET {AnalyzedTabs[k] : k \in 1..Len(AnalyzedTabs)},
                  reply : Replies,
                  called : {FALSE}, out : {NoObject}]

ProbeAnalyze ==
    /\ ~probe.called
    /\ LET tabsResult == getSheetTabs(TRUE, probe.tabsOk, AnalyzedTabs)
           dataOf == [tab \in {AnalyzedTabs[k] : k \in 1..Len(AnalyzedTabs)} |->
                         getSheetData(TRUE, tab \notin probe.failing, tab, TabValues(tab))]
       IN  probe' = [probe EXCEPT
                       !.called = TRUE,
                       !.out = analyzeData(probe.hasKey, tabsResult, dataOf, probe.reply)]
    /\ UNCHANGED restVars

SpecAnalyze == InitAnalyze /\ [][ProbeAnalyze]_vars

(* parseCellRef *)

\* Every text of up to n characters drawn from chars.
RECURSIVE TextsUpTo(_, _)
TextsUpTo(chars, n) ==
    IF n = 0 THEN {<<>>}
    ELSE LET shorter == TextsUpTo(chars, n - 1)
         IN  shorter \cup {Append(t, c) : t \in shorter, c \in chars}

\* Characters of a range argument: letters of both cases, digits, and two
\* characters that are neither.
RefChars == {"A", "B", "Z", "a", "0", "1", "5", "9", "$", " "}

InitCellRef ==
    /\ InitAtRest
    /\ probe \in [range : TextsUpTo(RefChars, MaxRefLen), called : {FALSE}, out : {NoObject}]

ProbeParseCellRef ==
    /\ ~probe.called
    /\ probe' = [probe EXCEPT !.called = TRUE, !.out = parseCellRef(probe.range)]
    /\ UNCHANGED restVars

SpecCellRef == InitCellRef /\ [][ProbeParseCellRef]_vars

(* The highlight of the table: parseRange and isCellHighlighted (App.tsx) *)

\* Faulty variant of parseRange: the row is counted as the gateway counts it.
parseRangeFromRowOne(range) ==
    LET cell == parseCellRef(range)
    IN  IF cell = NoObject THEN NoObject ELSE [row |-> cell.row, col |-> cell.col]

\* parseRange: /^([A-Z]+)(\d+)$/i; the row is relative to the data rows, row 1
\* being the header.
parseRange(range) ==
    LET colStr == LettersPrefix(range)
        rowStr == SubSeq(range, Len(colStr) + 1, Len(range))
    IN  IF /\ colStr # <<>>
           /\ rowStr # <<>>
           /\ \A k \in 1..Len(rowStr) : IsDigit(rowStr[k])
        THEN [row |-> ParseInt(rowStr) - 2, col |-> ColumnNumber(colStr, 0) - 1]
        ELSE NoObject

\* isCellHighlighted(rowIndex, colIndex) for the active tab and the keys kept.
isCellHighlighted(active, highlighted, rowIndex, colIndex) ==
    LET cellKey == active \o <<":">>
    IN  \E key \in highlighted :
            /\ StartsWith(key, cellKey)
            /\ LET parsed == parseRange(SubSeq(key, Len(cellKey) + 1, Len(key)))
               IN  /\ parsed # NoObject
                   /\ parsed.row = rowIndex
                   /\ parsed.col = colIndex

\* The cells of the table body: sheetData.rows.map((row, rowIndex) =>
\* row.map((cell, cellIndex) => ...)), every row taken as full.
TableCells == (0..(MaxTableRows - 1)) \X (0..(MaxTableCols - 1))

\* One apply of an action on written succeeded, the gateway coloured the cell, the
\* renderer kept the key, and the table of the tab on display is rendered.
InitHighlight ==
    /\ InitAtRest
    /\ probe \in [written : {Tickets}, active : {Tickets, Reciepts},
                  range : TextsUpTo(RefChars, MaxRefLen),
                  called : {FALSE}, out : {NoObject}]

ProbeHighlight ==
    /\ ~probe.called
    /\ LET action == [tab |-> probe.written, range |-> probe.range]
           coloured == setCellBackgroundGreen(TRUE, TRUE, TRUE, <<Tickets, Reciepts>>,
                                              action.tab, action.range).cells
           marked == {td \in TableCells :
                         isCellHighlighted(probe.active, {CellKey(action)}, td[1], td[2])}
       IN  probe' = [probe EXCEPT
                       !.called = TRUE,
                       !.out = [coloured |-> coloured, marked |-> marked]]
    /\ UNCHANGED restVars

SpecHighlight == InitHighlight /\ [][ProbeHighlight]_vars

(* getSheetTabs and getSheetData on a backend response *)

\* message.includes(needle)
Includes(message, needle) ==
    \E k \in 0..(Len(message) - Len(needle)) :
        SubSeq(message, k + 1, k + Len(needle)) = needle

InvalidGrant ==
    <<"i", "n", "v", "a", "l", "i", "d", "_", "g", "r", "a", "n", "t">>

Code401 == <<"4", "0", "1">>

Code404 == <<"4", "0", "4">>

NotFoundText == <<"n", "o", "t", " ", "f", "o", "u", "n", "d">>

UnableToParseRange ==
    <<"U", "n", "a", "b", "l", "e", " ", "t", "o", " ", "p", "a", "r", "s", "e",
    " ", "r", "a", "n", "g", "e">>

\* An error string: the template of the source and the text put in its ${...}.
ErrorText(template, inserted) == [template |-> template, inserted |-> inserted]

\* Faulty variant of getSheetTabs' catch block: 404 is tested before 401.
TabsFailureNotFoundFirst(message) ==
    IF Includes(message, Code404) \/ Includes(message, NotFoundText)
    THEN [error |-> ErrorText("Spreadsheet not found. Check the SPREADSHEET_ID.", <<>>)]
    ELSE IF Includes(message, InvalidGrant) \/ Includes(message, Code401)
    THEN [error |-> ErrorText("Auth failed. Check your service account credentials.", <<>>)]
    ELSE [error |-> ErrorText("Failed to fetch tabs: ${message}", message)]

\* getSheetTabs' catch block.
TabsFailure(message) ==
    IF Includes(message, InvalidGrant) \/ Includes(message, Code401)
    THEN [error |-> ErrorText("Auth failed. Check your service account credentials.", <<>>)]
    ELSE IF Includes(message, Code404) \/ Includes(message, NotFoundText)
    THEN [error |-> ErrorText("Spreadsheet not found. Check the SPREADSHEET_ID.", <<>>)]
    ELSE [error |-> ErrorText("Failed to fetch tabs: ${message}", message)]

\* getSheetData's catch block.
DataFailure(tabName, message) ==
    IF Includes(message, InvalidGrant) \/ Includes(message, Code401)
    THEN [error |-> ErrorText("Auth failed. Check your service account credentials.", <<>>)]
    ELSE IF Includes(message, Code404) \/ Includes(message, UnableToParseRange)
    THEN [error |-> ErrorText("Sheet \"${tabName}\" not found.", tabName)]
    ELSE [error |-> ErrorText("Failed to fetch data: ${message}", message)]

\* getSheetTabs given what spreadsheets.get does: it resolves (ok) with the
\* titles or rejects with a message.  calls counts the backend calls made.
getSheetTabsOn(hasId, response, titles) ==
    IF ~hasId THEN [calls |-> 0, result |-> getSheetTabs(hasId, TRUE, titles)]
    ELSE IF response.ok THEN [calls |-> 1, result |-> getSheetTabs(hasId, TRUE, titles)]
    ELSE [calls |-> 1, result |-> TabsFailure(response.message)]

\* getSheetData given what values.get does.
getSheetDataOn(hasId, response, tabName, values) ==
    IF ~hasId THEN [calls |-> 0, result |-> getSheetData(hasId, TRUE, tabName, values)]
    ELSE IF response.ok
    THEN [calls |-> 1, result |-> getSheetData(hasId, TRUE, tabName, values)]
    ELSE [calls |-> 1, result |-> DataFailure(tabName, response.message)]

\* Messages a rejected backend call may carry.
Messages ==
    { <<"i", "n", "v", "a", "l", "i", "d", "_", "g", "r", "a", "n", "t">>,
      <<"s", "t", "a", "t", "u", "s", " ", "4", "0", "1">>,
      <<"s", "t", "a", "t", "u", "s", " ", "4", "0", "4">>,
      <<"e", "n", "t", "i", "t", "y", " ", "w", "a", "s", " ", "n", "o", "t", " ", "f", "o", "u", "n", "d", ".">>,
      <<"U", "n", "a", "b", "l", "e", " ", "t", "o", " ", "p", "a", "r", "s", "e", " ", "r", "a", "n", "g", "e", ":", " ", "X">>,
      <<"N", "o", "t", " ", "F", "o", "u", "n", "d">>,
      <<"s", "o", "c", "k", "e", "t", " ", "h", "a", "n", "g", " ", "u", "p">>,
      <<"4", "0", "1", " ", "n", "o", "t", " ", "f", "o", "u", "n", "d">>,
      <<"i", "n", "v", "a", "l", "i", "d", "_", "g", "r", "a", "n", "t", " ", "4", "0", "4">>,
      <<>> }

Responses == {[ok |-> TRUE, message |-> <<>>]} \cup [ok : {FALSE}, message : Messages]

\* Rows values.get may answer with: equal rows, rows of different lengths, a
\* row without cells.
SheetRows == { <<"a", "b">>, <<"c", "d">>, <<"a">>, <<>> }

RECURSIVE RowListsUpTo(_)
RowListsUpTo(n) ==
    IF n = 0 THEN {<<>>}
    ELSE LET shorter == RowListsUpTo(n - 1)
         IN  shorter \cup {Append(rows, row) : rows \in shorter, row \in SheetRows}

Constructor == <<"c", "o", "n", "s", "t", "r", "u", "c", "t", "o", "r">>

Nowhere == <<"N", "o", "w", "h", "e", "r", "e">>

\* Tab names get-sheet-data may be asked for.
TabNames == {Pipeline, Approved, Rejected, Tickets, Nowhere, Constructor, <<>>}

InitSheets ==
    /\ InitAtRest
    /\ probe \in [hasId : BOOLEAN, response : Responses,
                  titles : {<<>>, <<Tickets>>, <<Tickets, Reciepts>>},
                  tabName : TabNames,
                  values : RowListsUpTo(MaxSheetRows),
                  fn : {"none"}, out : {NoObject}]

ProbeGetSheetTabs ==
    /\ probe.fn = "none"
    /\ probe' = [probe EXCEPT
                   !.fn = "getSheetTabs",
                   !.out = getSheetTabsOn(probe.hasId, probe.response, probe.titles)]
    /\ UNCHANGED restVars

ProbeGetSheetData ==
    /\ probe.fn = "none"
    /\ probe' = [probe EXCEPT
                   !.fn = "getSheetData",
                   !.out = getSheetDataOn(probe.hasId, probe.response, probe.tabName,
                                          probe.values)]
    /\ UNCHANGED restVars

SpecSheets == InitSheets /\ [][ProbeGetSheetTabs \/ ProbeGetSheetData]_vars

(* getDocContent (google-docs.ts) *)

\* join(separator) of a list of texts.
RECURSIVE JoinTexts(_, _)
JoinTexts(texts, separator) ==
    IF texts = <<>> THEN <<>>
    ELSE IF Len(texts) = 1 THEN texts[1]
    ELSE texts[1] \o separator \o JoinTexts(Tail(texts), separator)

\* extractText: the paragraph's text runs joined and trimmed.
extractText(paragraph) == Trim(JoinTexts(paragraph.runs, <<>>))

\* extractTableText: a cell is its paragraphs joined by a space and trimmed, a
\* row its cells joined by " | ", the table its rows joined by newlines.
extractTableText(table) ==
    LET CellText(cell) ==
            Trim(JoinTexts([k \in 1..Len(cell) |-> extractText(cell[k])], <<" ">>))
        RowText(row) ==
            JoinTexts([k \in 1..Len(row) |-> CellText(row[k])], <<" ", "|", " ">>)
    IN  JoinTexts([k \in 1..Len(table.tableRows) |-> RowText(table.tableRows[k])],
                  <<"\n">>)

HeadingPrefix == <<"H", "E", "A", "D", "I", "N", "G", "_">>

\* parseInt(style.replace('HEADING_', ''), 10) || 1
HeadingLevel(style) ==
    LET suffix == SubSeq(style, Len(HeadingPrefix) + 1, Len(style))
        RECURSIVE LeadingDigits(_)
        LeadingDigits(s) ==
            IF s # <<>> /\ IsDigit(s[1]) THEN <<s[1]>> \o LeadingDigits(Tail(s)) ELSE <<>>
        digits == LeadingDigits(suffix)
    IN  IF digits = <<>> \/ ParseInt(digits) = 0 THEN 1 ELSE ParseInt(digits)

\* Faulty variant of the test of a paragraph's text: no paragraph is skipped.
NeverSkipped(text) == FALSE

\* if (!text.trim()) continue
Skipped(text) == Trim(text) = <<>>

\* An element of the result; level is 0 where the source sets none.
DocElement(type, content, level) == [type |-> type, content |-> content, level |-> level]

\* The loop over doc.body.content.
RECURSIVE DocElements(_)
DocElements(content) ==
    IF content = <<>> THEN <<>>
    ELSE LET element == Head(content)
             rest == DocElements(Tail(content))
         IN  IF element.kind = "paragraph"
             THEN LET text == extractText(element)
                  IN  IF Skipped(text) THEN rest
                      ELSE IF StartsWith(element.style, HeadingPrefix)
                      THEN <<DocElement("heading", text, HeadingLevel(element.style))>>
                           \o rest
                      ELSE IF element.bullet THEN <<DocElement("list", text, 0)>> \o rest
                      ELSE <<DocElement("paragraph", text, 0)>> \o rest
             ELSE IF element.kind = "table"
             THEN LET tableText == extractTableText(element)
                  IN  IF tableText # <<>>
                      THEN <<DocElement("table", tableText, 0)>> \o rest
                      ELSE rest
             ELSE rest

\* getDocContent: null without DOC_ID and when documents.get fails (apiOk), else
\* the title and the elements.  calls counts the backend calls made.
getDocContent(hasDocId, apiOk, doc) ==
    IF ~hasDocId THEN [calls |-> 0, result |-> NoObject]
    ELSE IF ~apiOk THEN [calls |-> 1, result |-> NoObject]
    ELSE [calls |-> 1,
          result |-> [title |-> IF doc.title = "" THEN "Untitled Document" ELSE doc.title,
                      elements |-> DocElements(doc.content)]]

NormalText == <<"N", "O", "R", "M", "A", "L", "_", "T", "E", "X", "T">>

Paragraph(runs, style, bullet) ==
    [kind |-> "paragraph", runs |-> runs, style |-> style, bullet |-> bullet]

\* Elements of a document body: paragraphs with text, with whitespace only and
\* without runs, headings, a list item, tables with text, with one blank cell
\* and without rows, and a section break.
BodyElements ==
    { Paragraph(<<<<"a">>>>, NormalText, FALSE),
      Paragraph(<<<<" ">>>>, NormalText, FALSE),
      Paragraph(<<>>, NormalText, FALSE),
      Paragraph(<<<<" ", "b">>, <<"c", "\n">>>>, NormalText, FALSE),
      Paragraph(<<<<"h", "\n">>>>, HeadingPrefix \o <<"2">>, FALSE),
      Paragraph(<<<<"\n">>>>, HeadingPrefix \o <<"1">>, FALSE),
      Paragraph(<<<<"l">>>>, NormalText, TRUE),
      [kind |-> "table",
       tableRows |-> << << <<Paragraph(<<<<"t">>>>, NormalText, FALSE)>>,
                           <<Paragraph(<<<<"u", "\n">>>>, NormalText, FALSE)>> >> >>],
      [kind |-> "table",
       tableRows |-> << << <<Paragraph(<<<<" ">>>>, NormalText, FALSE)>> >> >>],
      [kind |-> "table", tableRows |-> <<>>],
      [kind |-> "sectionBreak"] }

RECURSIVE BodiesUpTo(_)
BodiesUpTo(n) ==
    IF n = 0 THEN {<<>>}
    ELSE LET shorter == BodiesUpTo(n - 1)
         IN  shorter \cup {Append(body, element) : body \in shorter, element \in BodyElements}

InitDoc ==
    /\ InitAtRest
    /\ probe \in [hasDocId : BOOLEAN, apiOk : BOOLEAN,
                  doc : [title : {"Plan", ""}, content : BodiesUpTo(MaxElements)],
                  called : {FALSE}, out : {NoObject}]

ProbeGetDocContent ==
    /\ ~probe.called
    /\ probe' = [probe EXCEPT
                   !.called = TRUE,
                   !.out = getDocContent(probe.hasDocId, probe.apiOk, probe.doc)]
    /\ UNCHANGED restVars

SpecDoc == InitDoc /\ [][ProbeGetDocContent]_vars

(* modifyRecommendation (llm.ts) *)

\* modifyRecommendation: hasKey is ANTHROPIC_API_KEY being set, reply what building
\* the client and messages.create do (throws, answers without a text block,
\* or answers with text).  The parsed value is returned as it is.
modifyRecommendation(hasKey, reply) ==
    IF ~hasKey
    THEN [threw |-> FALSE, modelCalls |-> 0,
          result |-> [error |-> "ANTHROPIC_API_KEY not set in .env"]]
    ELSE IF reply.kind = "throws"
    THEN [threw |-> FALSE, modelCalls |-> 1,
          result |-> [error |-> "Modification failed: request failed"]]
    ELSE IF reply.kind = "noText"
    THEN [threw |-> FALSE, modelCalls |-> 1,
          result |-> [error |-> "No text response from Claude"]]
    ELSE LET parsed == JsonParse(ExtractJson(reply.text), reply.members)
         IN  IF ~parsed.ok
             THEN [threw |-> FALSE, modelCalls |-> 1,
                   result |-> [error |-> "Modification failed: Unexpected token"]]
             ELSE IF parsed.value = NullValue
             THEN [threw |-> FALSE, modelCalls |-> 1,
                   result |-> [error |-> "Modification failed: Cannot read properties of null"]]
             ELSE [threw |-> FALSE, modelCalls |-> 1, result |-> parsed.value]

\* The action the model wrote between the braces of a refine reply.
ModifiedMembers == [tab |-> Tickets, range |-> B3, newValue |-> "a"]

ModifyReplies ==
    { [kind |-> "throws", text |-> <<>>, members |-> ModifiedMembers],
      [kind |-> "noText", text |-> <<>>, members |-> ModifiedMembers] }
    \cup [kind : {"text"}, text : ReplyTexts, members : {ModifiedMembers}]

(* The core functions behind the apply and refine requests, each on its own *)

\* Faulty variant: getSheetsClient is awaited before the try block is entered.
ClientBuiltBeforeTry(clientFailed, result) ==
    IF clientFailed THEN [threw |-> TRUE, result |-> NoObject]
    ELSE [threw |-> FALSE, result |-> result]

\* getSheetsClient is awaited inside the try block of the function: when it
\* rejects (clientFailed), the catch block's result is returned like that of
\* any failed backend call.
ClientBuiltInTry(clientFailed, result) == [threw |-> FALSE, result |-> result]

InitCore ==
    /\ InitAtRest
    /\ probe \in [hasId : BOOLEAN, clientOk : BOOLEAN, apiOk : BOOLEAN, columnOk : BOOLEAN,
                  titles : {<<Tickets, Reciepts>>, <<Tickets>>},
                  hasKey : BOOLEAN,
                  reply : {reply \in ModifyReplies :
                              reply.text \in {<<>>, <<"{", ":", "}">>, <<"{", "}">>, <<"x">>}},
                  fn : {"none"}, out : {NoObject}]

\* The backend call of the function rejects: the client could not be built,
\* or the call itself failed.
BackendOk(p) == p.clientOk /\ p.apiOk

CoreCall(fn, out) ==
    /\ probe.fn = "none"
    /\ probe' = [probe EXCEPT !.fn = fn, !.out = out]
    /\ UNCHANGED restVars

ProbeUpdateCellCore ==
    CoreCall("updateCell",
             ClientBuiltInTry(probe.hasId /\ ~probe.clientOk,
                              updateCell(probe.hasId, BackendOk(probe), probe.clientOk,
                                         probe.clientOk, probe.titles, Tickets, B2)))

ProbeAppendRow ==
    CoreCall("appendRow",
             ClientBuiltInTry(probe.hasId /\ ~probe.clientOk,
                              appendRow(probe.hasId, BackendOk(probe))))

ProbeGetCellValue ==
    CoreCall("getCellValue",
             ClientBuiltInTry(probe.hasId /\ ~probe.clientOk,
                              getCellValue(probe.hasId, BackendOk(probe), "x")))

ProbeFindReceiptsTab ==
    CoreCall("findReceiptsTab",
             ClientBuiltInTry(probe.hasId /\ ~probe.clientOk,
                              [tab |-> findReceiptsTab(getSheetTabs(probe.hasId,
                                                                    BackendOk(probe),
                                                                    probe.titles))]))

ProbeNextReceiptId ==
    CoreCall("getNextReceiptId",
             ClientBuiltInTry(probe.hasId /\ ~probe.clientOk,
                              getNextReceiptId(probe.hasId,
                                               getSheetTabs(probe.hasId, BackendOk(probe),
                                                            probe.titles),
                                               probe.clientOk /\ probe.columnOk,
                                               ColumnA(ledger))))

ProbeModifyRecommendation ==
    CoreCall("modifyRecommendation", modifyRecommendation(probe.hasKey, probe.reply))

SpecCore ==
    /\ InitCore
    /\ [][\/ ProbeUpdateCellCore
          \/ ProbeAppendRow
          \/ ProbeGetCellValue
          \/ ProbeFindReceiptsTab
          \/ ProbeNextReceiptId
          \/ ProbeModifyRecommendation]_vars

----------------------------------------------------------------------------
(* handleApply with requests that reject, across re-analyses *)

\* The card after handleApply's catch: { ...prev, loading: false, error: message }.
CardCaught(prev, message) == [prev EXCEPT !.loading = FALSE, !.error = message]

\* The request an invocation awaits rejects instead of being served (no
\* handler answers the channel): handleApply's catch block.
ApplyCatch(i) ==
    /\ InFlight(i)
    /\ applies[i].resp = NoObject
    /\ LET a == applies[i]
           card == CardCaught(recStates[a.rec], "No handler registered")
       IN  /\ applies' = [applies EXCEPT
                   ![i] = [Ended(a, card, recStates[a.rec].applied) EXCEPT
                              !.log = a.log \o << <<a.pc, "throw">> >>]]
           /\ recStates' = [recStates EXCEPT ![a.rec] = card]
    /\ UNCHANGED <<backendVars, tableVars, panelVars, refines, lastRefine,
                   nextApply, overlapped, highlightedCells, budget, idProbe, probe>>

\* Apply clicks on the cards of successive analyses, on the Tickets tab of a configured spreadsheet.
InitSessions ==
    /\ InitBackend /\ InitTableLoaded /\ InitPanel
    /\ spreadsheetId
    /\ sheetTabs = <<Tickets, Reciepts>>
    /\ activeTab = Tickets
    /\ budget = [applies |-> MaxApplies, analyses |-> MaxAnalyses, edits |-> 0,
                 modifies |-> 0, loads |-> 0]
    /\ probe = NoObject

NextSessions ==
    \/ \E r \in Recs : HandleApply(r)
    \/ \E i \in 1..MaxApplies : ServeGetCellValue(i)
    \/ \E i \in 1..MaxApplies : ApplyAfterRead(i)
    \/ \E i \in 1..MaxApplies : ServeUpdateCell(i)
    \/ \E i \in 1..MaxApplies : ApplyAfterWrite(i)
    \/ \E i \in 1..MaxApplies : ServeGetNextReceiptId(i)
    \/ \E i \in 1..MaxApplies : ApplyAfterId(i)
    \/ \E i \in 1..MaxApplies : ServeAppendReceipt(i)
    \/ \E i \in 1..MaxApplies : ApplyAfterAppend(i)
    \/ \E i \in 1..MaxApplies : ApplyCatch(i)
    \/ RunAnalysis
    \/ \E result \in AnalysisResults : AnalyzeReturn(result)
    \/ \E tab \in AllTabs : LoadSheetDataReturn(tab)

SpecSessions == InitSessions /\ [][NextSessions]_vars

----------------------------------------------------------------------------
(* analyzeData and modifyRecommendation over what the model may write *)

\* The members the model may write between the braces: an analysis, an
\* analysis without recommendations, one whose recommendations are null, an
\* action, and an action without range and newValue.
WrittenMembers ==
    << ModelMembers,
       [summary |-> "s"],
       [summary |-> "s", recommendations |-> NullValue],
       ModifiedMembers,
       [tab |-> Tickets] >>

InitParse ==
    /\ InitAtRest
    /\ \E text \in ReplyTexts, k \in 1..Len(WrittenMembers) :
         probe = [reply |-> [kind |-> "text", text |-> text, members |-> WrittenMembers[k]],
                  fn |-> "none", out |-> NoObject]

ProbeAnalyzeReply ==
    LET tabsResult == getSheetTabs(TRUE, TRUE, AnalyzedTabs)
        dataOf == [tab \in {AnalyzedTabs[k] : k \in 1..Len(AnalyzedTabs)} |->
                      getSheetData(TRUE, TRUE, tab, TabValues(tab))]
        out == analyzeData(TRUE, tabsResult, dataOf, probe.reply)
    IN  CoreCall("analyzeData", [threw |-> out.threw, result |-> out.result])

ProbeModifyReply ==
    LET out == modifyRecommendation(TRUE, probe.reply)
    IN  CoreCall("modifyRecommendation", [threw |-> out.threw, result |-> out.result])

SpecParse == InitParse /\ [][ProbeAnalyzeReply \/ ProbeModifyReply]_vars

----------------------------------------------------------------------------
(* The bridge between the renderer and the main process *)

\* The methods the ElectronAPI interface declares (types.d.ts).
ElectronAPI ==
    {"getSheetTabs", "getSheetData", "getDocContent", "updateCell", "analyzeData",
     "modifyRecommendation", "appendReceipt", "getCellValue", "getNextReceiptId"}

\* The object preload.ts exposes as window.electronAPI: each method and the
\* channel it invokes.
electronAPI ==
    [getSheetTabs |-> "get-sheet-tabs",
     getSheetData |-> "get-sheet-data",
     getDocContent |-> "get-doc-content",
     updateCell |-> "update-cell",
     analyzeData |-> "analyze-data"]

\* The channels main.ts registers a handler for.
ipcMainHandlers ==
    {"get-sheet-tabs", "get-sheet-data", "get-doc-content", "update-cell", "analyze-data"}

\* window.electronAPI.method(...): a method that is not exposed is undefined
\* and calling it throws a TypeError; ipcRenderer.invoke on a channel without
\* a handler rejects; otherwise the handler's result comes back.
Invoke(method) ==
    IF method \notin DOMAIN electronAPI THEN "TypeError: not a function"
    ELSE IF electronAPI[method] \notin ipcMainHandlers THEN "No handler registered"
    ELSE "served"

\* How many calls of the renderer one run follows.
MaxCalls == 3

InitBridge ==
    /\ InitAtRest
    /\ probe = [calls |-> <<>>]

\* The renderer calls one of the declared methods.
ProbeInvoke ==
    /\ Len(probe.calls) < MaxCalls
    /\ \E method \in ElectronAPI :
         probe' = [calls |-> Append(probe.calls,
                                    [method |-> method, outcome |-> Invoke(method)])]
    /\ UNCHANGED restVars

SpecBridge == InitBridge /\ [][ProbeInvoke]_vars

----------------------------------------------------------------------------
(* Apply and refine with a backend that answers every request *)

\* One Apply click, one notes edit and one Modify click among re-analyses, on
\* the Tickets tab of a configured spreadsheet.
InitAnswered ==
    /\ InitBackend /\ InitTableLoaded /\ InitPanel
    /\ spreadsheetId
    /\ sheetTabs = <<Tickets, Reciepts>>
    /\ activeTab = Tickets
    /\ budget = [applies |-> 1, analyses |-> MaxAnalyses, edits |-> 1, modifies |-> 1,
                 loads |-> 0]
    /\ probe = NoObject

NextAnswered ==
    \/ \E r \in Recs : HandleApply(r)
    \/ \E i \in 1..MaxApplies : ServeGetCellValue(i)
    \/ \E i \in 1..MaxApplies : ApplyAfterRead(i)
    \/ \E i \in 1..MaxApplies : ServeUpdateCell(i)
    \/ \E i \in 1..MaxApplies : ApplyAfterWrite(i)
    \/ \E i \in 1..MaxApplies : ServeGetNextReceiptId(i)
    \/ \E i \in 1..MaxApplies : ApplyAfterId(i)
    \/ \E i \in 1..MaxApplies : ServeAppendReceipt(i)
    \/ \E i \in 1..MaxApplies : ApplyAfterAppend(i)
    \/ \E i \in 1..MaxApplies : ApplyCatch(i)
    \/ \E r \in Recs, notes \in NotesInputs : SetModificationNotes(r, notes)
    \/ \E r \in Recs : HandleModify(r)
    \/ \E r \in Recs, modResult \in ModifyResults : ModifyReturn(r, modResult)
    \/ RunAnalysis
    \/ \E result \in AnalysisResults : AnalyzeReturn(result)
    \/ \E tab \in AllTabs : LoadSheetDataReturn(tab)

\* Every request that was issued is answered, and the continuation of the
\* handler that awaits an answer runs once the answer is there.
Answered ==
    /\ \A i \in 1..MaxApplies :
         /\ WF_vars(ServeGetCellValue(i))
         /\ WF_vars(ApplyAfterRead(i))
         /\ WF_vars(ServeUpdateCell(i))
         /\ WF_vars(ApplyAfterWrite(i))
         /\ WF_vars(ServeGetNextReceiptId(i))
         /\ WF_vars(ApplyAfterId(i))
         /\ WF_vars(ServeAppendReceipt(i))
         /\ WF_vars(ApplyAfterAppend(i))
    /\ \A r \in Recs : WF_vars(\E modResult \in ModifyResults : ModifyReturn(r, modResult))

SpecAnswered == InitAnswered /\ [][NextAnswered]_vars /\ Answered

----------------------------------------------------------------------------
(* Properties *)

Invocations == 1..MaxApplies

\* The requests an invocation has issued, and whether one is in its log.
Called(a, name) == \E k \in 1..Len(a.log) : a.log[k] = <<name, "call">>

Pending(a) ==
    Cardinality({k \in 1..Len(a.log) : a.log[k][2] = "call"})
        - Cardinality({k \in 1..Len(a.log) : a.log[k][2] = "return"})

IsPrefix(s, t) == Len(s) <= Len(t) /\ s = SubSeq(t, 1, Len(s))

\* The one order in which an invocation may issue and get back its requests.
SequentialLog ==
    << <<"read", "call">>, <<"read", "return">>, <<"write", "call">>, <<"write", "return">>,
       <<"id", "call">>, <<"id", "return">>, <<"append", "call">>, <<"append", "return">> >>

\* An identifier of the form REC-<digits>, and the number its digits spell.
IsReceiptId(t) ==
    /\ Len(t) >= 5
    /\ \A k \in 1..4 : t[k] = <<"R", "E", "C", "-">>[k]
    /\ \A k \in 5..Len(t) : t[k] \in DigitSet

RECURSIVE Pow10(_)
Pow10(k) == IF k = 0 THEN 1 ELSE 10 * Pow10(k - 1)

RECURSIVE DecimalFrom(_, _)
DecimalFrom(ds, k) ==
    IF k > Len(ds) THEN 0
    ELSE DigitValues[ds[k]] * Pow10(Len(ds) - k) + DecimalFrom(ds, k + 1)

SuffixNumber(t) == DecimalFrom(SubSeq(t, 5, Len(t)), 1)

\* C1: an apply whose write-cell returned a failure issues no next-receipt-id
\* and no append-receipt request, adds no row to the ledger, and does not mark
\* its recommendation applied: it stops at the write.
C1_FailedWriteStops ==
    \A i \in Invocations :
        applies[i].writeFailed =>
            /\ applies[i].pc \in {"write", "done"}
            /\ ~Called(applies[i], "id")
            /\ ~Called(applies[i], "append")
            /\ applies[i].appended = 0
            /\ ~applies[i].marked

\* An apply has ended on a failed write, with the failure on its card.
C1_Witness ==
    \E i \in Invocations :
        /\ applies[i].pc = "done"
        /\ applies[i].writeFailed
        /\ applies[i].cardError = "Failed to update cell"
        /\ Len(ledger) = 2

\* C2: an apply whose write-cell succeeded ends with its recommendation
\* applied and no error on the card, whatever next-receipt-id and
\* append-receipt answered, and none of its steps after the write (the
\* append's failure included) changes a cell.
C2_Step ==
    \A i \in Invocations :
        /\ (applies[i].pc # "done" /\ applies'[i].pc = "done" /\ applies'[i].writeOk) =>
              /\ applies'[i].cardApplied
              /\ applies'[i].cardError = None
              /\ recStates'[applies'[i].rec].applied
              /\ recStates'[applies'[i].rec].error = None
        /\ (applies[i].pc \in {"id", "append"} /\ applies'[i] # applies[i]) =>
              cells' = cells

C2_WriteSuccessIsSuccess == [][C2_Step]_vars

\* An apply has ended applied although its append-receipt failed; the cell
\* keeps the value it wrote and the ledger got no row.
C2_Witness ==
    \E i \in Invocations :
        /\ applies[i].pc = "done"
        /\ applies[i].writeOk
        /\ applies[i].appendFailed
        /\ applies[i].cardApplied
        /\ applies[i].rec = "r1"
        /\ cells[<<Tickets, B2>>] = "a"
        /\ Len(ledger) = 2
        /\ budget.applies = MaxApplies - 1

\* C3: the requests of one apply are issued one after the other in the order
\* read-cell, write-cell, next-receipt-id, append-receipt, each only after the
\* one before it has returned; at most one of them is in flight.
C3_Sequential ==
    \A i \in Invocations :
        /\ IsPrefix(applies[i].log, SequentialLog)
        /\ Pending(applies[i]) \in {0, 1}
        /\ applies[i].pc = "done" => Pending(applies[i]) = 0

\* An apply has gone through all four requests.
C3_Witness ==
    \E i \in Invocations : applies[i].pc = "done" /\ applies[i].log = SequentialLog

\* The identifiers of the form REC-<digits> in column A above row k.
IdsAbove(k) ==
    {ledger[j][1] : j \in {n \in 1..(k - 1) : ledger[n] # <<>> /\ IsReceiptId(ledger[n][1])}}

\* C4: when applies do not overlap, the receiptId of every row an apply
\* appends differs from every REC-<digits> already in column A when it is
\* appended, whatever the backend calls that generate the id answered.
C4_NoCollision ==
    ~overlapped =>
        \A i \in Invocations :
            applies[i].appended > 0 =>
                ledger[applies[i].appended][1] \notin IdsAbove(applies[i].appended)

\* C5: applies are not serialized across cards: while an apply of another
\* card is in flight, Apply on a card that is on screen, not applied and not
\* loading starts a new apply (the user having a click left).
C5_NotSerialized ==
    \A r \in Recs :
        ( /\ CardVisible(r)
          /\ ~recStates[r].applied
          /\ ~recStates[r].loading
          /\ budget.applies > 0
          /\ \E i \in Invocations : InFlight(i) /\ applies[i].rec # r )
        => ENABLED HandleApply(r)

\* Two applies of different cards whose id scans both read the ledger before
\* either appended, and whose rows carry the same receiptId.
C5_Witness ==
    \E i, j \in Invocations :
        /\ applies[i].rec # applies[j].rec
        /\ applies[i].appended > 0
        /\ applies[j].appended > applies[i].appended
        /\ applies[i].scanLen < applies[i].appended
        /\ applies[j].scanLen < applies[i].appended
        /\ applies[i].resp.error = None
        /\ applies[j].resp.error = None
        /\ applies[i].receipt.receiptId = <<"R", "E", "C", "-", "0", "0", "2">>
        /\ ledger[applies[i].appended][1] = ledger[applies[j].appended][1]
        /\ ledger[applies[i].appended][3] # ledger[applies[j].appended][3]

\* The rows of column A that hold an identifier, and the largest number among them.
Matching(column) == {k \in 1..Len(column) : IsReceiptId(column[k])}

MaxSuffix(column) ==
    IF Matching(column) = {} THEN 0
    ELSE CHOOSE n \in {SuffixNumber(column[k]) : k \in Matching(column)} :
             \A k \in Matching(column) : SuffixNumber(column[k]) <= n

\* id is REC- followed by n in decimal, padded with zeros to three digits.
IsIdOf(id, n) ==
    /\ IsReceiptId(id)
    /\ SuffixNumber(id) = n
    /\ Len(id) >= 7
    /\ Len(id) > 7 => id[5] # "0"

\* C6: getNextReceiptId answers REC-<n>, n one more than the largest number
\* among the entries of column A that are exactly REC-<digits>, padded with
\* zeros to at least three digits; REC-001 when there is no receipts tab, no
\* row or no such entry; REC-008 for REC-001, REC-002, REC-007.  (Column A
\* having been read: the answer to a failed read is the subject of C4.)
C6_NextReceiptId ==
    idProbe # NoObject =>
        LET tabFound == /\ idProbe.hasId
                        /\ idProbe.tabsResult.isArray
                        /\ \E k \in 1..Len(idProbe.tabsResult.tabs) :
                               Normalize(idProbe.tabsResult.tabs[k]) \in
                                   { <<"r", "e", "c", "e", "i", "p", "t", "s">>,
                                     <<"r", "e", "c", "i", "e", "p", "t", "s">> }
            id == idProbe.result.receiptId
        IN  /\ ~tabFound => id = <<"R", "E", "C", "-", "0", "0", "1">>
            /\ (tabFound /\ idProbe.columnOk) =>
                  /\ IsIdOf(id, MaxSuffix(idProbe.column) + 1)
                  /\ idProbe.result.error = None
                  /\ Matching(idProbe.column) = {} => id = <<"R", "E", "C", "-", "0", "0", "1">>
                  /\ idProbe.column = << <<"R", "E", "C", "-", "0", "0", "1">>,
                                         <<"R", "E", "C", "-", "0", "0", "2">>,
                                         <<"R", "E", "C", "-", "0", "0", "7">> >>
                        => id = <<"R", "E", "C", "-", "0", "0", "8">>

\* The column REC-999, an entry that does not match, REC-007 was read and the
\* answer is REC-1000.
C6_Witness ==
    /\ idProbe # NoObject
    /\ idProbe.columnOk
    /\ idProbe.column = << <<"R", "E", "C", "-", "9", "9", "9">>,
                           <<"R", "E", "C", "-", "2", "0", "a">>,
                           <<"R", "E", "C", "-", "0", "0", "7">> >>
    /\ idProbe.result.receiptId = <<"R", "E", "C", "-", "1", "0", "0", "0">>

\* C7: within one analysis session a card that is applied stays applied under
\* every later event, and no apply and no refine is started for it.
C7_Step ==
    \A r \in Recs :
        (recStates[r].applied /\ session' = session) =>
            /\ recStates'[r].applied
            /\ refines'[r] <= refines[r]
            /\ \A i \in Invocations :
                  (applies'[i].rec = r /\ applies'[i].pc = "read") =>
                      applies[i].pc = "read"

C7_AppliedIsTerminal == [][C7_Step]_vars

\* A refine answered after its card was applied, and the card is still applied.
C7_Witness ==
    \E r \in Recs :
        /\ recStates[r].applied
        /\ recStates[r].modifiedAction # NoObject
        /\ refines[r] = 0

\* C8: the receipt an apply assembles has the tab, cell and newValue that
\* were passed to its write-cell, and wasModified "Yes" exactly when a refine
\* of the recommendation had succeeded before the apply started (the action
\* written is then the refined one), "No" when the action written is the
\* recommendation's own.
C8_ReceiptDescribesWrite ==
    \A i \in Invocations :
        applies[i].receipt # NoObject =>
            LET a == applies[i]
                own == Recommendation(a.rec).action
            IN  /\ a.receipt.tab = a.written.tab
                /\ a.receipt.cell = a.written.range
                /\ a.receipt.newValue = a.written.value
                /\ a.receipt.wasModified \in {"Yes", "No"}
                /\ a.receipt.wasModified = "Yes" <=> a.refined # NoObject
                /\ a.receipt.wasModified = "Yes" =>
                      a.written = [tab |-> a.refined.tab, range |-> a.refined.range,
                                   value |-> a.refined.newValue]
                /\ a.receipt.wasModified = "No" =>
                      a.written = [tab |-> own.tab, range |-> own.range,
                                   value |-> own.newValue]

\* A receipt of a refined action that was written to another cell than the
\* recommendation's.
C8_Witness ==
    \E i \in Invocations :
        /\ applies[i].receipt # NoObject
        /\ applies[i].writeOk
        /\ applies[i].receipt.wasModified = "Yes"
        /\ applies[i].receipt.cell = B3
        /\ cells[<<Tickets, B3>>] = "a"

\* C9 as stated: the originalValue of a receipt whose read succeeded is what
\* the cell held right before the apply's write, under every interleaving.
C9_OriginalValueBeforeWrite ==
    \A i \in Invocations :
        (applies[i].receipt # NoObject /\ ~applies[i].readError) =>
            applies[i].receipt.originalValue = applies[i].beforeWrite

\* C9: the originalValue of a receipt whose read succeeded is what the cell
\* held right before the apply's write, provided no other write to the cell
\* took effect between the apply's read and its write.
C9_OriginalValueUnlessOverwritten ==
    \A i \in Invocations :
        ( /\ applies[i].receipt # NoObject
          /\ ~applies[i].readError
          /\ ~applies[i].interfered )
        => applies[i].receipt.originalValue = applies[i].beforeWrite

\* Two applies overlapped on one cell, the second read what the first had
\* written, and its receipt says so.
C9_Witness ==
    \E i \in Invocations :
        /\ overlapped
        /\ applies[i].receipt # NoObject
        /\ ~applies[i].readError
        /\ ~applies[i].interfered
        /\ applies[i].rec = "r2"
        /\ applies[i].receipt.originalValue = "a"

\* C10: an apply whose read-cell returned an error still issues its write,
\* and the receipt it assembles after a successful write has the empty string
\* as originalValue.
C10_ReadErrorTolerated ==
    \A i \in Invocations :
        applies[i].readError =>
            /\ applies[i].pc # "read" => Called(applies[i], "write")
            /\ applies[i].receipt # NoObject => applies[i].receipt.originalValue = ""

\* A receipt assembled after a failed read and a successful write of a cell
\* that was not empty.
C10_Witness ==
    \E i \in Invocations :
        /\ applies[i].readError
        /\ applies[i].writeOk
        /\ applies[i].beforeWrite = "x"
        /\ applies[i].receipt # NoObject
        /\ applies[i].receipt.originalValue = ""

\* The secondary call of an update-cell call failed: the range did not parse,
\* the sheet lookup failed, the tab has no sheet, or the batch update failed.
BackgroundFailed(p) ==
    \/ parseCellRef(p.range) = NoObject
    \/ ~p.metaOk
    \/ ~\E k \in 1..Len(p.titles) : p.titles[k] = p.tab
    \/ ~p.batchOk

\* C11: update-cell reports success exactly when its value write succeeded;
\* the background-colour call is made only after a successful value write (so
\* never after a failed one), and no failure of that secondary call (sheet
\* lookup, unknown tab, unparsable range, batch update) turns the success into
\* a failure or sends a second value write.
C11_SuccessIsValueWrite ==
    probe.called =>
        LET valueWritten == probe.hasId /\ probe.apiOk
        IN  /\ probe.out.success <=> valueWritten
            /\ probe.out.success <=> probe.out.error = None
            /\ probe.out.background.called => valueWritten
            /\ ~valueWritten => /\ probe.out.background = NotCalled
                                /\ probe.out.writes <= 1
            /\ valueWritten => /\ probe.out.writes = 1
                               /\ probe.out.background.called
                               /\ BackgroundFailed(probe) => probe.out.background.cells = {}

\* A successful update-cell whose sheet lookup failed, and so coloured nothing.
C11_Witness ==
    /\ probe.called
    /\ probe.out.success
    /\ ~probe.metaOk
    /\ parseCellRef(probe.range) # NoObject
    /\ probe.out.background.called
    /\ probe.out.background.lookups = 1
    /\ probe.out.background.cells = {}

\* Notes that are empty or hold nothing but whitespace.
IsBlank(notes) == \A k \in 1..Len(notes) : IsSpace(notes[k])

\* C12: while a card's notes are empty or whitespace-only, no step sends a
\* refine request for it or sets its in-flight flag, and, unless an earlier
\* refine of that recommendation is still unanswered, no step records a
\* modified action on it: the action an apply would write stays the same.
C12_Step ==
    \A r \in Recs :
        IsBlank(recStates[r].modificationNotes) =>
            /\ refines'[r] <= refines[r]
            /\ ~recStates[r].modifying => ~recStates'[r].modifying
            /\ refines[r] = 0 =>
                  /\ recStates'[r].modifiedAction \in {recStates[r].modifiedAction, NoObject}
                  /\ lastRefine'[r] \in {lastRefine[r], NoObject}

C12_BlankNotesSendNothing == [][C12_Step]_vars

\* A card on display with whitespace-only notes and a Modify click left to
\* spend: the click starts nothing, and the card has no modified action.
C12_Witness ==
    \E r \in Recs :
        /\ CardVisible(r)
        /\ recStates[r].modificationNotes = <<" ">>
        /\ ~recStates[r].applied
        /\ ~recStates[r].loading
        /\ budget.modifies > 0
        /\ ~ENABLED HandleModify(r)
        /\ refines[r] = 0
        /\ ~recStates[r].modifying
        /\ recStates[r].modifiedAction = NoObject

IsErrorResult(result) ==
    /\ DOMAIN result = {"summary", "recommendations", "error"}
    /\ result.summary = ""
    /\ result.recommendations = <<>>
    /\ result.error \notin {"", None}

\* The text of a reply, handed to a parser of its own: a JSON object is what is
\* left, between the first "{" and the last "}", once every space and newline is
\* taken out; only "{:}" has the recommendations member.
HasRecommendations(reply) ==
    /\ reply.kind = "text"
    /\ \E k \in 1..Len(reply.text), n \in 1..Len(reply.text) :
          /\ k < n
          /\ reply.text[k] = "{"
          /\ reply.text[n] = "}"
          /\ \A j \in 1..Len(reply.text) :
                (reply.text[j] = "{" => j >= k) /\ (reply.text[j] = "}" => j <= n)
          /\ \E c \in k..n :
                /\ reply.text[c] = ":"
                /\ \A j \in (k + 1)..(n - 1) : j # c => IsSpace(reply.text[j])

\* A failure of analyze's own steps: no model credential, the model call
\* threw, the reply has no text block, or its text does not parse to an object
\* with recommendations.
OwnFailure(p) == ~p.hasKey \/ ~HasRecommendations(p.reply)

\* A failure of a read that feeds the prompt: the tab listing, or a tab's fetch.
ReadFailure(p) == ~p.tabsOk \/ p.failing # {}

\* C13 as stated: after a failure at any step, a failed tab listing or tab
\* fetch included, analyze returns the error result; it never throws.
C13_EveryFailureIsError ==
    probe.called =>
        /\ ~probe.out.threw
        /\ (OwnFailure(probe) \/ ReadFailure(probe)) => IsErrorResult(probe.out.result)

\* C13: analyze never throws; it returns the error result (summary '', no
\* recommendations, a non-empty error) exactly when the model credential is
\* missing, the model call fails, the reply has no text block or its text
\* does not parse to an object with recommendations.  A failed tab listing
\* or tab fetch is no failure of analyze: it goes on with the tabs it could
\* read and returns what the model answered.
C13_OwnFailureIsError ==
    probe.called =>
        /\ ~probe.out.threw
        /\ OwnFailure(probe) <=> IsErrorResult(probe.out.result)
        /\ ~OwnFailure(probe) => probe.out.result = probe.reply.members
        /\ probe.out.modelCalls = IF probe.hasKey THEN 1 ELSE 0

\* The reply's text was no JSON and analyze returned the error result.
C13_Witness ==
    /\ probe.called
    /\ probe.hasKey
    /\ probe.reply.kind = "text"
    /\ probe.reply.text = <<"{", ":">>
    /\ IsErrorResult(probe.out.result)

\* C14: whatever subset of the tabs fails to fetch, analyze skips exactly
\* those tabs, puts every other tab's headers and rows in the prompt in
\* tab-list order, calls the model once and, when the model answers with the
\* recommendations, returns them and no error.
C14_PartialTabFailure ==
    (probe.called /\ probe.hasKey /\ probe.tabsOk) =>
        LET Fetched(tab) == tab \notin probe.failing
            kept == SelectSeq(AnalyzedTabs, Fetched)
            sections == probe.out.sections
        IN  /\ Len(sections) = Len(kept)
            /\ \A k \in 1..Len(kept) :
                  LET values == TabValues(kept[k])
                  IN  /\ sections[k].tab = kept[k]
                      /\ sections[k].headers = IF values = <<>> THEN <<>> ELSE values[1]
                      /\ sections[k].rows = IF values = <<>> THEN <<>> ELSE Tail(values)
            /\ probe.out.modelCalls = 1
            /\ HasRecommendations(probe.reply) =>
                  /\ "error" \notin DOMAIN probe.out.result
                  /\ probe.out.result.recommendations = probe.reply.members.recommendations

\* The second of three tabs failed to fetch: the prompt holds the first and the
\* third, and the model's recommendations are returned.
C14_Witness ==
    /\ probe.called
    /\ probe.hasKey
    /\ probe.tabsOk
    /\ probe.failing = {AnalyzedTabs[2]}
    /\ Len(probe.out.sections) = 2
    /\ probe.out.sections[1].tab = AnalyzedTabs[1]
    /\ probe.out.sections[2].tab = AnalyzedTabs[3]
    /\ probe.out.modelCalls = 1
    /\ "error" \notin DOMAIN probe.out.result
    /\ Len(probe.out.result.recommendations) = 2

\* The value of letters read as a bijective base-26 numeral: A = 1 .. Z = 26,
\* AA = 27.
RECURSIVE Pow26(_)
Pow26(k) == IF k = 0 THEN 1 ELSE 26 * Pow26(k - 1)

RECURSIVE Bijective26(_, _)
Bijective26(ls, k) ==
    IF k > Len(ls) THEN 0
    ELSE LetterPlace[ls[k]] * Pow26(Len(ls) - k) + Bijective26(ls, k + 1)

\* The letters of column number n, 1 = A.
RECURSIVE ColumnLetters(_)
ColumnLetters(n) ==
    IF n = 0 THEN <<>>
    ELSE ColumnLetters((n - 1) \div 26) \o <<UpperLetters[((n - 1) % 26) + 1]>>

\* s is n letters followed by one or more digits.
LettersThenDigits(s, n) ==
    /\ n \in 1..(Len(s) - 1)
    /\ \A k \in 1..n : s[k] \in UpperSet \cup LowerSet
    /\ \A k \in (n + 1)..Len(s) : s[k] \in DigitSet

\* C15: parseCellRef answers every string.  For one or more letters of any
\* case followed by one or more digits it returns row = decimal value of the
\* digits - 1 and col = bijective base-26 value of the letters - 1, and the
\* reference rebuilt from that pair parses to the same pair; for every other
\* string it returns null.
C15_ParseCellRef ==
    probe.called =>
        LET s == probe.range
            cell == probe.out
        IN  IF \E n \in 1..Len(s) : LettersThenDigits(s, n)
            THEN LET n == CHOOSE n \in 1..Len(s) : LettersThenDigits(s, n)
                 IN  /\ cell # NoObject
                     /\ cell.row = DecimalFrom(SubSeq(s, n + 1, Len(s)), 1) - 1
                     /\ cell.col = Bijective26(SubSeq(s, 1, n), 1) - 1
                     /\ parseCellRef(ColumnLetters(cell.col + 1)
                                     \o NumToString(cell.row + 1)) = cell
            ELSE cell = NoObject

\* AA1 parsed to row 0, column 26.
C15_Witness ==
    /\ probe.called
    /\ probe.range = <<"A", "A", "1">>
    /\ probe.out = [row |-> 0, col |-> 26]

\* The grid cell a cell of the table body shows: getSheetData takes the first
\* row of the tab as headers, so data row 0 is grid row 1 (spreadsheet row 2).
GridCellOf(tab, td) == [tab |-> tab, row |-> td[1] + 1, col |-> td[2]]

\* The grid cells of the tab that the table body shows.
ShownCells(tab) == {GridCellOf(tab, td) : td \in TableCells}

MarkedGridCells == {GridCellOf(probe.active, td) : td \in probe.out.marked}

\* C16 as stated: for every reference, the cell the gateway colours is the
\* cell the table marks, and no other cell of the table is marked.
C16_SameCell ==
    (probe.called /\ probe.active = probe.written) =>
        \A cell \in probe.out.coloured :
            (cell.col < MaxTableCols /\ cell.row <= MaxTableRows) =>
                MarkedGridCells = {cell}

\* C16: for every reference to a cell of a data row (spreadsheet row 2 or
\* below) the cell the gateway colours is the one cell the table marks while
\* its tab is on display; for a reference to row 1 the gateway colours the
\* header cell and the table marks no cell; a reference that the gateway
\* colours nothing for, and a tab that is not on display, mark no cell.
C16_SameDataCell ==
    probe.called =>
        IF probe.active = probe.written
        THEN MarkedGridCells = probe.out.coloured \cap ShownCells(probe.written)
        ELSE probe.out.marked = {}

\* B5 written: the gateway coloured grid row 4, column 1, and the table marks
\* data row 3, column 1.
C16_Witness ==
    /\ probe.called
    /\ probe.active = probe.written
    /\ probe.range = <<"B", "5">>
    /\ probe.out.coloured = {[tab |-> Tickets, row |-> 4, col |-> 1]}
    /\ probe.out.marked = {<<3, 1>>}

\* C17: on a live backend whose read resolves, getSheetData returns the first
\* row as headers and every later row as a data row, in the backend's order
\* and as the backend gave it (none dropped, reordered, merged with an equal
\* row or padded); zero rows give {headers: [], rows: []} and no error.
C17_RowsAsFetched ==
    (probe.fn = "getSheetData" /\ probe.hasId /\ probe.response.ok) =>
        LET result == probe.out.result
            values == probe.values
        IN  /\ DOMAIN result = {"headers", "rows"}
            /\ probe.out.calls = 1
            /\ IF Len(values) = 0
               THEN result.headers = <<>> /\ result.rows = <<>>
               ELSE /\ result.headers = values[1]
                    /\ Len(result.rows) = Len(values) - 1
                    /\ \A k \in 1..Len(result.rows) : result.rows[k] = values[k + 1]

\* A header, a row without cells and a row equal to the header, all returned.
C17_Witness ==
    /\ probe.fn = "getSheetData"
    /\ probe.hasId
    /\ probe.response.ok
    /\ probe.values = << <<"a", "b">>, <<>>, <<"a", "b">> >>
    /\ probe.out.result.headers = <<"a", "b">>
    /\ probe.out.result.rows = << <<>>, <<"a", "b">> >>

\* needle occurs in message.
Contains(message, needle) ==
    \E i \in 1..Len(message) : \E j \in i..Len(message) : SubSeq(message, i, j) = needle

ReportsAuth(message) == Contains(message, InvalidGrant) \/ Contains(message, Code401)

AuthError == ErrorText("Auth failed. Check your service account credentials.", <<>>)

\* The error each function returns for a class of failure.
NotFoundError(p) ==
    IF p.fn = "getSheetTabs"
    THEN ErrorText("Spreadsheet not found. Check the SPREADSHEET_ID.", <<>>)
    ELSE ErrorText("Sheet \"${tabName}\" not found.", p.tabName)

GenericError(p) ==
    IF p.fn = "getSheetTabs"
    THEN ErrorText("Failed to fetch tabs: ${message}", p.response.message)
    ELSE ErrorText("Failed to fetch data: ${message}", p.response.message)

\* The error of the taxonomy whose NotFound class is what notFound says.
Classified(p, notFound) ==
    IF ReportsAuth(p.response.message) THEN AuthError
    ELSE IF notFound THEN NotFoundError(p)
    ELSE GenericError(p)

Failed(p) == p.fn \in {"getSheetTabs", "getSheetData"} /\ p.hasId /\ ~p.response.ok

\* C18 as stated: both functions put a failure in the NotFound class when,
\* not being an Auth failure, its message has 404 or "not found".
C18_SameTaxonomy ==
    Failed(probe) =>
        LET message == probe.response.message
        IN  probe.out.result =
                [error |-> Classified(probe, Contains(message, Code404)
                                             \/ Contains(message, NotFoundText))]

\* C18: a failed getSheetTabs or getSheetData returns exactly one of three
\* errors, tested in this order: Auth when the message has invalid_grant or
\* 401; else NotFound when it has 404 or, for getSheetTabs, "not found", for
\* getSheetData, "Unable to parse range" (its message names the tab); else the
\* generic error, which carries the message as it came.
C18_Taxonomy ==
    Failed(probe) =>
        LET message == probe.response.message
            marker == IF probe.fn = "getSheetTabs" THEN NotFoundText ELSE UnableToParseRange
        IN  /\ probe.out.result =
                  [error |-> Classified(probe, Contains(message, Code404)
                                               \/ Contains(message, marker))]
            /\ probe.out.calls = 1

\* A failure whose message has both 401 and "not found", reported as Auth.
C18_Witness ==
    /\ Failed(probe)
    /\ probe.fn = "getSheetTabs"
    /\ Contains(probe.response.message, Code401)
    /\ Contains(probe.response.message, NotFoundText)
    /\ probe.out.result.error = AuthError

\* C20: without a spreadsheet id no backend call is made; getSheetTabs returns
\* exactly Pipeline, Approved, Rejected; getSheetData returns the headers
\* Company, Amount, Close Date, Owner and two rows for Approved, and
\* {headers: ['No data'], rows: []} for every tab name that is not one of
\* the three.
C20_DemoMode ==
    (probe.fn \in {"getSheetTabs", "getSheetData"} /\ ~probe.hasId) =>
        /\ probe.out.calls = 0
        /\ probe.fn = "getSheetTabs" =>
              probe.out.result = [isArray |-> TRUE, tabs |-> <<Pipeline, Approved, Rejected>>]
        /\ (probe.fn = "getSheetData" /\ probe.tabName = Approved) =>
              /\ probe.out.result.headers = <<"Company", "Amount", "Close Date", "Owner">>
              /\ Len(probe.out.result.rows) = 2
        /\ (probe.fn = "getSheetData" /\ probe.tabName \notin {Pipeline, Approved, Rejected}) =>
              probe.out.result = [headers |-> <<"No data">>, rows |-> <<>>]

\* The element of the body has text to show: a paragraph whose runs hold a
\* character that is not whitespace, or a table whose text is not empty.
HasText(element) ==
    \/ /\ element.kind = "paragraph"
       /\ \E k \in 1..Len(element.runs) : \E n \in 1..Len(element.runs[k]) :
             ~IsSpace(element.runs[k][n])
    \/ /\ element.kind = "table"
       /\ extractTableText(element) # <<>>

\* The places of the body whose element has text, in body order.
PlacesWithText(content) ==
    LET Shown(k) == HasText(content[k])
    IN  SelectSeq([k \in 1..Len(content) |-> k], Shown)

\* C19: getDocContent returns null or {title, elements} and nothing else:
\* null without a backend call when no document id is set, null when the
\* backend call fails, and otherwise the title with one element for each
\* body element that has text, in body order; no heading, list item or
\* paragraph of the result has empty or whitespace-only content.
C19_DocOrNull ==
    probe.called =>
        LET result == probe.out.result
            content == probe.doc.content
            places == PlacesWithText(content)
        IN  /\ ~probe.hasDocId => result = NoObject /\ probe.out.calls = 0
            /\ (probe.hasDocId /\ ~probe.apiOk) => result = NoObject /\ probe.out.calls = 1
            /\ (probe.hasDocId /\ probe.apiOk) =>
                  /\ DOMAIN result = {"title", "elements"}
                  /\ result.title = IF probe.doc.title = "" THEN "Untitled Document"
                                    ELSE probe.doc.title
                  /\ Len(result.elements) = Len(places)
                  /\ \A n \in 1..Len(places) :
                        LET source == content[places[n]]
                            element == result.elements[n]
                        IN  /\ (element.type = "table") <=> (source.kind = "table")
                            /\ source.kind = "paragraph" =>
                                  /\ element.content = extractText(source)
                                  /\ ~IsBlank(element.content)
                                  /\ element.type = "list" => source.bullet

\* A body of a whitespace-only paragraph followed by a paragraph with text:
\* the result holds the second alone.
C19_Witness ==
    /\ probe.called
    /\ probe.hasDocId
    /\ probe.apiOk
    /\ Len(probe.doc.content) = 2
    /\ probe.doc.content[1] = Paragraph(<<<<" ">>>>, NormalText, FALSE)
    /\ probe.doc.content[2] = Paragraph(<<<<"a">>>>, NormalText, FALSE)
    /\ probe.out.result.elements = <<DocElement("paragraph", <<"a">>, 0)>>

\* The call examined met a failure: a missing configuration value, a client
\* that could not be built, or a backend call that failed.
CoreFailure(p) ==
    IF p.fn = "modifyRecommendation"
    THEN ~p.hasKey \/ p.reply.kind # "text"
    ELSE IF p.fn = "getNextReceiptId"
    THEN ~p.hasId \/ ~p.clientOk \/ ~p.apiOk \/ ~p.columnOk
    ELSE ~p.hasId \/ ~p.clientOk \/ ~p.apiOk

\* C21: updateCell, appendRow, getCellValue, getNextReceiptId,
\* findReceiptsTab and modifyRecommendation never throw; on a missing
\* configuration value, a client that cannot be built or a failed backend
\* call each returns its structured result: {success: false, error},
\* {value: '', error}, {receiptId, error}, null, {error}.
C21_NoExceptionCrosses ==
    probe.fn # "none" =>
        /\ ~probe.out.threw
        /\ LET result == probe.out.result
           IN  CoreFailure(probe) =>
                 /\ probe.fn \in {"updateCell", "appendRow"} =>
                       ~result.success /\ result.error \notin {None, ""}
                 /\ probe.fn = "getCellValue" =>
                       result.value = "" /\ result.error \notin {None, ""}
                 /\ probe.fn = "getNextReceiptId" =>
                       result.receiptId = FirstReceiptId /\ result.error \notin {None, ""}
                 /\ probe.fn = "findReceiptsTab" => result.tab = NoText
                 /\ probe.fn = "modifyRecommendation" => DOMAIN result = {"error"}

\* getNextReceiptId with the spreadsheet id set and a client that cannot be
\* built: it returned a receipt id with an error.
C21_Witness ==
    /\ probe.fn = "getNextReceiptId"
    /\ probe.hasId
    /\ ~probe.clientOk
    /\ ~probe.out.threw
    /\ probe.out.result.error \notin {None, ""}
    /\ probe.out.result.receiptId = FirstReceiptId


\* How many times an entry occurs in the log of an invocation.
Count(log, entry) == Cardinality({k \in 1..Len(log) : log[k] = entry})

RequestKinds == {"read", "write", "id", "append"}

\* The invocation ends in this step by a failed write or by a rejected request.
ApplyFails(i) ==
    /\ InFlight(i)
    /\ applies'[i].pc = "done"
    /\ \/ applies'[i].writeFailed /\ applies[i].pc = "write"
       \/ applies'[i].log[Len(applies'[i].log)][2] = "throw"

\* What the failure branches of handleApply do to the card, and that no
\* request was issued twice.
FailureFrame(i) ==
    LET r == applies[i].rec
    IN  /\ ~recStates'[r].loading
        /\ recStates'[r].error # None
        /\ recStates'[r].modificationNotes = recStates[r].modificationNotes
        /\ recStates'[r].modifiedAction = recStates[r].modifiedAction
        /\ \A kind \in RequestKinds : Count(applies'[i].log, <<kind, "call">>) <= 1

C23_ReplacedNeverMerged ==
    [][/\ analyzeCalls' <= 1
       /\ session' # session =>
              /\ analyzeCalls = 0
              /\ analysis' = NoObject
              /\ \A r \in Recs : recStates'[r] = EmptyCard
       /\ analyzeCalls' < analyzeCalls =>
              /\ analyzeCalls' = 0
              /\ analyzeResp' \in AnalysisResults
              /\ analysis' = analyzeResp'
              /\ ~analyzing'
       /\ analysis' # analysis =>
              session' # session \/ analyzeCalls' < analyzeCalls]_vars

\* A second analysis is displayed, and the card that an apply had marked
\* applied under the first has no state left.
C23_Witness ==
    /\ session >= 2
    /\ analyzeCalls = 0
    /\ analysis = analyzeResp
    /\ analysis.error = None
    /\ \E i \in 1..MaxApplies :
         /\ applies[i].pc = "done"
         /\ applies[i].cardApplied
         /\ recStates[applies[i].rec] = EmptyCard


\* The text holds one JSON value once fences, prose and whitespace around it
\* are gone: one object, or the literal null on its own.
ParsesAsJson(text) ==
    \/ /\ Count(text, "{") = 1
       /\ Count(text, "}") = 1
       /\ \E k \in 1..Len(text) : text[k] = "{" /\ \A j \in 1..k : text[j] # "}"
    \/ text = <<"n">>

\* The value that text denotes.
WrittenValue(reply) ==
    IF reply.text = <<"n">> THEN NullValue
    ELSE IF Count(reply.text, ":") = 1 THEN reply.members
    ELSE EmptyObject

\* C24 as stated: whenever the text parses, analyze and refine return the
\* parsed value itself, whatever members it has.
C24_ParsedValueReturned ==
    (probe.fn # "none" /\ ParsesAsJson(probe.reply.text)) =>
        /\ ~probe.out.threw
        /\ probe.out.result = WrittenValue(probe.reply)

\* The parsed value has what the function reads from it before returning it:
\* analyze reads parsed.recommendations.length, refine reads parsed.tab.
Readable(fn, value) ==
    IF fn = "analyzeData"
    THEN /\ value # NullValue
         /\ "recommendations" \in DOMAIN value
         /\ value.recommendations # NullValue
    ELSE value # NullValue

\* C24: whenever the text parses, refine returns the parsed value itself
\* unless it is null, and analyze returns it unless it is null or has no
\* recommendations or null recommendations; in those cases the error result
\* is returned.  No other member is looked at.
C24_ParsedValueReturnedIfReadable ==
    (probe.fn # "none" /\ ParsesAsJson(probe.reply.text)) =>
        /\ ~probe.out.threw
        /\ IF Readable(probe.fn, WrittenValue(probe.reply))
           THEN probe.out.result = WrittenValue(probe.reply)
           ELSE IF probe.fn = "analyzeData"
           THEN /\ probe.out.result.summary = ""
                /\ probe.out.result.recommendations = <<>>
                /\ probe.out.result.error \notin {None, ""}
           ELSE DOMAIN probe.out.result = {"error"}

\* refine returned an action without range and newValue as it was written,
\* out of prose around the braces.
C24_Witness ==
    /\ probe.fn = "modifyRecommendation"
    /\ probe.reply.text = <<"x", " ", "{", ":", "}", " ", "x">>
    /\ probe.reply.members = [tab |-> Tickets]
    /\ probe.out.result = [tab |-> Tickets]


\* C25: every call of a declared method is exposed to the renderer, has a
\* registered handler and receives its response.
C25_EveryCommandServed ==
    \A k \in 1..Len(probe.calls) : probe.calls[k].outcome = "served"


\* C26: a card on screen is shown applied only if an apply started on it under
\* the analysis on screen has ended with its write succeeded.
C26_AppliedByOwnWrite ==
    \A r \in Recs :
        (CardVisible(r) /\ recStates[r].applied) =>
            \E i \in 1..MaxApplies :
                /\ applies[i].pc = "done"
                /\ applies[i].rec = r
                /\ applies[i].writeOk
                /\ applies[i].session = session


\* The action a card displays: state.modifiedAction || rec.action.
DisplayedAction(card, r) == FinalAction(card, Recommendation(r))

\* C27: the step that marks a card applied leaves it displaying the action
\* the apply wrote and recorded in its receipt, and no later step changes the
\* action an applied card displays.
C27_DisplayedIsWritten ==
    [][/\ \A i \in 1..MaxApplies :
            (applies[i].pc = "append" /\ applies'[i].pc = "done" /\ applies'[i].cardApplied) =>
                /\ DisplayedAction(recStates'[applies[i].rec], applies[i].rec)
                       = applies[i].finalAction
                /\ applies[i].receipt.tab = applies[i].finalAction.tab
                /\ applies[i].receipt.cell = applies[i].finalAction.range
                /\ applies[i].receipt.newValue = applies[i].finalAction.newValue
       /\ \A r \in Recs :
            (recStates[r].applied /\ recStates'[r].applied) =>
                DisplayedAction(recStates'[r], r) = DisplayedAction(recStates[r], r)]_vars


\* The invocation ended in handleApply's catch block.
Threw(a) == a.pc = "done" /\ a.log[Len(a.log)][2] = "throw"

\* C28: while an apply started on a card under the analysis on screen is in
\* flight the card's Apply button cannot be used; no two applies of one
\* recommendation under one analysis both have their write succeed (applies
\* ended by a rejected request set aside); and no apply issues write-cell twice.
C28_OneApplyPerCard ==
    \A i \in 1..MaxApplies :
        /\ (InFlight(i) /\ applies[i].session = session /\ CardVisible(applies[i].rec)) =>
               ~ApplyButton(applies[i].rec)
        /\ \A j \in 1..MaxApplies :
               ( /\ i # j
                 /\ applies[i].rec = applies[j].rec
                 /\ applies[i].session = applies[j].session
                 /\ ~Threw(applies[i]) /\ ~Threw(applies[j]) )
               => ~(applies[i].writeOk /\ applies[j].writeOk)
        /\ Count(applies[i].log, <<"write", "call">>) <= 1


\* The tab-data fetches in flight.
FetchesInFlight == {t \in AllTabs : fetches[t] > 0}

\* C29: when no fetch is in flight and no error is shown, the table on screen
\* was fetched for the active tab; and the loading indicator is on while a
\* fetch is in flight.
C29_TableOfActiveTab ==
    /\ (FetchesInFlight = {} /\ ~initialLoad /\ error = None /\ sheetData # NoObject) =>
           shownFor = activeTab
    /\ FetchesInFlight # {} => loading


\* The card has left the in-flight state of an apply: it is applied, or it is
\* not loading and shows an error.
ApplyEnded(r) ==
    \/ recStates[r].applied
    \/ ~recStates[r].loading /\ recStates[r].error # None

\* The card has left the in-flight state of a refine: it is not modifying and
\* has a modified action or shows an error.
RefineEnded(r) ==
    /\ ~recStates[r].modifying
    /\ recStates[r].modifiedAction # NoObject \/ recStates[r].error # None

\* C30: when every request is answered, an apply in flight leads to its end
\* with the card applied or not loading with an error, and a refine in flight
\* leads to its end with the card not modifying, with a modified action or an
\* error.
C30_RequestsAnsweredLeadToEnd ==
    /\ \A i \in 1..MaxApplies, r \in Recs :
         (InFlight(i) /\ applies[i].rec = r)
             ~> (applies[i].pc = "done" /\ ApplyEnded(r))
    /\ \A r \in Recs :
         (refines[r] > 0) ~> (refines[r] = 0 /\ RefineEnded(r))

\* An apply has ended with an error on its card while the card's refine had
\* returned a modified action.
C30_Witness ==
    \E i \in 1..MaxApplies :
        /\ applies[i].pc = "done"
        /\ applies[i].writeFailed
        /\ recStates[applies[i].rec].error # None
        /\ ~recStates[applies[i].rec].loading
        /\ refines[applies[i].rec] = 0
        /\ recStates[applies[i].rec].modifiedAction # NoObject

====
